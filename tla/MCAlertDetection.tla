--------------------------- MODULE MCAlertDetection --------------------------
EXTENDS AlertDetection

MCOneAndTwo == <<1, 2>>
MCThree == <<3>>
MCFirst == {<<2,1>>}
NoEvents == {}
=============================================================================
