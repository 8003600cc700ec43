------------------------- MODULE MCDatabaseLifecycle -------------------------
EXTENDS DatabaseLifecycle, TLC

CONSTANTS o1, o2

TwoCollections == [normalized_events |-> {"event_id", "ttl"}, raw_archive |-> {"batch_id"}]
SingleServer == [version |-> 7, policy |-> "noeviction", appendonly |-> TRUE, answers |-> TRUE]
Symmetry == Permutations(Operator)
=============================================================================
