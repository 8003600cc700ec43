------------------------- MODULE CollectorContract -------------------------
(***************************************************************************)
(* What Collector and backend agree on: which lines of an input file       *)
(* become events, how events are sized, sealed and signed, and which       *)
(* batches the backend believes.  One program decides what to write, the   *)
(* other, in another language, what to accept.                             *)
(*                                                                         *)
(* A line is a record of the facts that some check asks for: its form is   *)
(* the kind of JSON it is, or what it is not JSON for.  A text is its      *)
(* length; sizes are in units of the model; instants are milliseconds      *)
(* since 1970, of which Second make a second.                              *)
(***************************************************************************)
EXTENDS CollectorMessages, FiniteSets, FiniteSetsExt

CONSTANTS
  Line,          \* the lines that may be in the file
  MaxLines,      \* bound: lines that are read
  MaxNesting,    \* 128
  MaxBatch, MaxEvents,                     \* limits of the Collector
  MaxName, MaxMessage, MaxHost,            \* limits of the backend's schema
  Second, FirstInstant, LastInstant,       \* of the years with four digits
  Envelope, EventOverhead, Radix           \* size of a document; 10

\* A line is typed; a document has room for something.
ASSUME ContractAssumption ==
  /\ {MaxLines, MaxNesting, MaxBatch, MaxEvents, MaxName, MaxMessage, MaxHost, Second}
       \subseteq Nat \ {0}
  /\ Radix \in Nat \ {0, 1} /\ {Envelope, EventOverhead} \subseteq Nat /\ Envelope < MaxBatch
  /\ \A r \in Line :
       /\ {r.event_id, r.endpoint_id, r.event_type, r.timestamp, r.username, r.source_ip}
            \subseteq {-2, -1} \cup Nat
       /\ {r.bytes, r.depth} \subseteq Nat /\ {r.time.at, r.time.offset} \subseteq Int

Absent == -2      \* a field that is missing
NotText == -1     \* a field that is not a string
Prefix == 3       \* what the message adds to the name

VARIABLES
  key,        \* the key this Collector signs with
  offset,     \* start of the next line in the file, counted in lines
  read,       \* lines read
  batch,      \* events of the open batch
  size,       \* BatchAssembler::encoded_bytes_
  deferred,   \* an event that did not fit: None or <<event>>
  sealed,     \* a document that is published: None or <<document>>
  verdict     \* what the backend says of one: None or <<[doc, says]>>

contractVars == <<key, offset, read, batch, size, deferred, sealed, verdict>>

\* The check that fails first decides.
Outcome(checks) ==
  LET failing == {i \in DOMAIN checks : checks[i][1]} IN
    IF failing = {} THEN "ok" ELSE checks[Min(failing)][2]

-----------------------------------------------------------------------------
(* The Collector: reading.                                                 *)

\* is_valid_utf8, of the bytes of the line.
ValidUtf8(r) == r.form # "not utf8"

\* JsonSafetyScanner: keys, numbers and containers, as the parser meets them.
ScanPasses(r) == r.form \notin {"key twice", "unsafe number"} /\ r.depth <= MaxNesting

\* parse_json_strict: a mark in front, the scan, and the syntax of the library.
StrictJson(r) == ScanPasses(r) /\ r.form \in {"object", "array"}

\* A field that has to be a string that is not empty.
Required(r, name) ==
  <<<<r[name] = Absent \/ r[name] = 0, "missing_required_field">>,
    <<r[name] = NotText, "invalid_field_type">>>>

\* FileReader::finish_record.
ReaderChecks(r) ==
  <<<<r.bytes > MaxRecord, "record_too_large">>,
    <<~ValidUtf8(r), "invalid_utf8">>,
    <<~StrictJson(r), "invalid_json">>,
    <<r.form = "array", "invalid_field_type">>>>
  \o Required(r, "event_id") \o Required(r, "endpoint_id")
  \o Required(r, "event_type") \o Required(r, "timestamp")

\* rfc3339_milliseconds: the offset may be of any number of hours.
ReadsTime(t) == t.rfc /\ t.real

\* inet_pton stops at a NUL.
ValidIp(ip) == ip \in {"address", "address then NUL"}

\* BaselineMapper::map.
MapperChecks(r) ==
  Required(r, "event_type") \o Required(r, "username") \o Required(r, "source_ip")
  \o <<<<r.kind \notin {"login_success", "login_failed"}, "unsupported_event_type">>,
       <<~ValidIp(r.ip), "invalid_ip_address">>,
       <<~ReadsTime(r.time), "invalid_timestamp">>>>

\* utc_timestamp: the year is written with the digits it has, and a fraction
\* below zero with its sign.
UtcTimestamp(at) ==
  [fourDigits |-> at \in FirstInstant..LastInstant, sign |-> at < 0 /\ at % Second # 0]

\* is_rfc3339, of a text utc_timestamp wrote.
IsRfc3339(text) == text.fourDigits /\ ~text.sign

\* A number keeps its value and loses the way it was written.
AppendNumber(n) == n.value

\* The mapped event; its identity is that of its place in the file.
MapEvent(r, start) ==
  [id |-> <<"source", start>>, start |-> start, raw |-> r,
   endpoint |-> r.endpoint_id, upstream |-> r.event_id, name |-> r.username,
   message |-> r.username + Prefix, ip |-> r.ip, kind |-> r.kind,
   time |-> r.time.at, utc |-> UtcTimestamp(r.time.at), number |-> r.number, depth |-> r.depth]

-----------------------------------------------------------------------------
(* The Collector: batches.                                                 *)

\* Mutant: the tree is counted from the event.
TreeFitsAlone(e) == e.depth <= MaxNesting

\* validate_json_tree of the document: the unmapped fields lie four below it.
TreeFits(e) == e.depth + 4 <= MaxNesting

\* validate_event: event_time is the timestamp the mapper wrote.
ValidEvent(e) == IsRfc3339(e.utc) /\ TreeFits(e)

DecimalDigits(n) ==
  LET digits[k \in 0..n] == IF k < Radix THEN 1 ELSE 1 + digits[k \div Radix]
  IN digits[n]

EmptySize == Envelope + DecimalDigits(0)
Contribution(e) == e.raw.bytes + EventOverhead

SumSeq(s) ==
  LET sum[n \in 0..Len(s)] == IF n = 0 THEN 0 ELSE sum[n - 1] + s[n]
  IN sum[Len(s)]

\* The size of the document, as serialize writes it.
EncodedSize(events) ==
  Envelope + DecimalDigits(Len(events)) + SumSeq([i \in DOMAIN events |-> Contribution(events[i])])
  + (IF events = <<>> THEN 0 ELSE Len(events) - 1)

\* Mutant: the count of events has one digit.
FramingGrowthOneDigit(n) == IF n = 0 THEN 0 ELSE 1

\* A separator, and what the count of events grows by.
FramingGrowth(n) ==
  (IF n = 0 THEN 0 ELSE 1) + DecimalDigits(n + 1) - DecimalDigits(n)

\* BatchAssembler::try_add.
TryAdd(e) ==
  Outcome(<<<<~ValidEvent(e), "ocsf_validation_failed">>,
            <<Contribution(e) > MaxBatch - EmptySize, "record_too_large">>,
            <<Len(batch) >= MaxEvents, "flush_required">>,
            <<FramingGrowth(Len(batch)) + Contribution(e) > MaxBatch - size, "flush_required">>>>)

Added(e) ==
  /\ batch' = Append(batch, e)
  /\ size' = size + Contribution(e) + FramingGrowth(Len(batch))

\* The canonical form of a document without its signature.
Canonical(events) ==
  [i \in DOMAIN events |-> [events[i] EXCEPT !.number = AppendNumber(@)]]

\* seal and sign.
Document(events) ==
  [events |-> events, key |-> key, intact |-> TRUE,
   signature |-> <<key, Canonical(events)>>]

Flushed ==
  /\ sealed' = <<Document(batch)>> /\ verdict' = None
  /\ batch' = <<>> /\ size' = EmptySize

-----------------------------------------------------------------------------
(* The steps of the Collector.                                             *)

\* The next line is read and mapped and added to the batch; or it is rejected,
\* and what came before it is published first.
TakeLine(r) ==
  /\ read < MaxLines /\ deferred = None /\ sealed = None
  /\ read' = read + 1 /\ offset' = offset + 1
  /\ LET e == MapEvent(r, offset)
         reason == Outcome(ReaderChecks(r) \o MapperChecks(r))
         added == IF reason = "ok" THEN TryAdd(e) ELSE reason
     IN CASE added = "ok" -> Added(e) /\ UNCHANGED <<deferred, sealed, verdict>>
          [] added = "flush_required" ->
               deferred' = <<e>> /\ UNCHANGED <<batch, size, sealed, verdict>>
          [] OTHER -> IF batch = <<>> THEN UNCHANGED <<batch, size, deferred, sealed, verdict>>
                      ELSE Flushed /\ UNCHANGED deferred
  /\ UNCHANGED key

\* The batch is full, or it has waited long enough, or an event waits for it.
Flush ==
  /\ batch # <<>> /\ sealed = None
  /\ Flushed
  /\ UNCHANGED <<key, offset, read, deferred>>

AddDeferred ==
  /\ deferred # None /\ batch = <<>>
  /\ Added(deferred[1]) /\ deferred' = None
  /\ UNCHANGED <<key, offset, read, sealed, verdict>>

\* The file is written anew in place: it keeps its identity.
Rewritten ==
  /\ offset > 0 /\ offset' = 0
  /\ UNCHANGED <<key, read, batch, size, deferred, sealed, verdict>>

-----------------------------------------------------------------------------
(* The backend.                                                            *)

\* rejectBom and decodeUtf8.
DecodesText(r) == r.form \notin {"byte order mark", "not utf8"}

\* parseObject, parseString and parseNumber refuse what they read.
ParsesObject(r) == r.form # "key twice"
ParsesString(r) == r.form # "lone surrogate"
ParsesNumber(r) == r.form # "unsafe number"

\* StrictJsonParser.
ParsesJson(r) ==
  /\ DecodesText(r) /\ r.form # "no json" /\ r.depth <= MaxNesting
  /\ ParsesObject(r) /\ ParsesString(r) /\ ParsesNumber(r)

\* parseValue of the document.
ParsesTree(e) == e.depth + 4 <= MaxNesting

\* Rfc8785Canonicalizer, of numbers that were parsed.
Recanonical(events) == [i \in DOMAIN events |-> [events[i] EXCEPT !.number = @.value]]

\* The schema of a time stamp asks for milliseconds and Z.
TimestampForm(text) == text.fourDigits /\ ~text.sign

\* The schema of an event.
SchemaChecks(e) ==
  <<<<e.upstream \notin 1..MaxName \/ e.endpoint \notin 1..MaxHost, "schema">>,
    <<~TimestampForm(e.utc), "schema">>,
    <<e.time < 0, "schema">>,
    <<e.message \notin 1..MaxMessage \/ e.name \notin 1..MaxName, "schema">>>>

\* Date.parse and isIP.
ParsesDate(t) == t.rfc /\ t.real /\ t.offset <= 23
IsIp(ip) == ip = "address"

\* validateEvent: the event is compared with the line it says it came from.
SemanticChecks(e) ==
  <<<<e.id # <<"source", e.start>>, "identity">>,
    <<~IsIp(e.ip), "ip">>,
    <<~ParsesJson(e.raw) \/ e.raw.form # "object", "raw">>,
    <<\E f \in {"endpoint_id", "timestamp", "event_type", "username", "source_ip"} :
        e.raw[f] < 1, "raw">>,
    <<~ParsesDate(e.raw.time), "timestamp">>,
    <<e.endpoint # e.raw.endpoint_id \/ e.name # e.raw.username \/ e.ip # e.raw.ip
      \/ e.time # e.raw.time.at, "mapping">>,
    <<e.kind \notin {"login_success", "login_failed"} \/ e.kind # e.raw.kind, "mapping">>>>

DistinctIds(events) == Cardinality({e.id : e \in ToSet(events)}) = Len(events)

\* Every event passes its checks.
EventsPass(checks) == \A i \in DOMAIN checks : Outcome(checks[i]) = "ok"

\* CollectorTrustStore and the HMAC verifier.
Known(doc) == doc.key \in Trusted
Authentic(doc) == doc.intact /\ doc.signature = <<doc.key, Recanonical(doc.events)>>

\* VerifyCollectorMessageService.verify.
Verify(doc) ==
  Outcome(<<<<EncodedSize(doc.events) > MaxBatch, "too_large">>,
            <<\E e \in ToSet(doc.events) : ~ParsesTree(e), "json">>,
            <<~Known(doc), "untrusted">>,
            <<~Authentic(doc), "hmac">>,
            <<Len(doc.events) \notin 1..MaxEvents, "schema">>,
            <<~EventsPass([i \in DOMAIN doc.events |-> SchemaChecks(doc.events[i])]), "schema">>,
            <<~DistinctIds(doc.events), "duplicate">>,
            <<~EventsPass([i \in DOMAIN doc.events |-> SemanticChecks(doc.events[i])]), "semantics">>>>)

\* The backend reads the document, as it was written or with a byte changed.
Deliver ==
  /\ sealed # None
  /\ \E intact \in BOOLEAN :
       verdict' = LET doc == [sealed[1] EXCEPT !.intact = intact] IN
                    <<[doc |-> doc, says |-> Verify(doc)]>>
  /\ sealed' = None
  /\ UNCHANGED <<key, offset, read, batch, size, deferred>>

-----------------------------------------------------------------------------
ContractInit ==
  /\ key \in Key
  /\ offset = 0 /\ read = 0 /\ batch = <<>> /\ size = EmptySize
  /\ deferred = None /\ sealed = None /\ verdict = None

ContractNext ==
  \/ \E r \in Line : TakeLine(r)
  \/ Flush \/ AddDeferred \/ Rewritten \/ Deliver

ContractSpec == ContractInit /\ [][ContractNext]_contractVars

-----------------------------------------------------------------------------
(* Properties.                                                             *)

\* Reference: what a line needs beyond what the Collector asks of it.
WithinLimits(r) ==
  /\ r.event_id <= MaxName /\ r.endpoint_id <= MaxHost
  /\ r.username <= MaxName /\ r.username + Prefix <= MaxMessage
  /\ r.time.at >= 0 /\ r.time.offset <= 23 /\ r.ip = "address"

\* The backend believes a batch exactly if it is as the Collector signed it,
\* with a key it knows, and its lines are within the limits only the backend
\* has and at different places: on everything else the two programs agree.
VerdictsAgree ==
  \A v \in ToSet(verdict) :
    v.says = "ok" <=>
      /\ v.doc.intact /\ v.doc.key \in Trusted
      /\ \A i \in DOMAIN v.doc.events :
           /\ WithinLimits(v.doc.events[i].raw)
           /\ \A j \in 1..(i - 1) : v.doc.events[i].start # v.doc.events[j].start

\* The size that is added up is the size the document will have, whatever
\* comes and goes, and no document is larger than the contract allows.
SizeExact == size = EncodedSize(batch) /\ size <= MaxBatch /\ Len(batch) <= MaxEvents

\* The backend believes what the Collector signs, within limits that are named,
\* and the size that the Collector adds up is the size of the document.
ContractAgrees == VerdictsAgree /\ SizeExact

\* A batch that was published by a Collector with a trusted key is believed.
PublishedIsBelieved ==
  \A v \in ToSet(verdict) : v.doc.intact /\ v.doc.key \in Trusted => v.says = "ok"
=============================================================================
