-------------------------- MODULE CollectorMessages --------------------------
(***************************************************************************)
(* The documents of a Collector beside its batches: heartbeats, and the    *)
(* rejections of lines it could not publish.  Each is checked by the       *)
(* Collector when it is written, a rejection once more when a Collector    *)
(* that died before it was stored reads it again, and both by the backend, *)
(* which has a schema of its own.                                          *)
(*                                                                         *)
(* Lengths are in units of the model, times in ticks of the Collector's    *)
(* clock.  A field with a fixed form is the name of the form.              *)
(***************************************************************************)
EXTENDS Integers, Sequences, SequencesExt

CONSTANTS
  Trusted,       \* keys the backend knows
  Key,           \* keys a Collector may sign with
  MaxRecord,     \* maximum_encoded_event_bytes
  MaxCapture,    \* maximum_rejected_capture_bytes
  Overhead,      \* size of a rejection beside what it captures
  MaxSafe,       \* maximum_safe_json_integer
  Bytes,         \* bound: lengths of lines
  MaxClock       \* bound: ticks

ASSUME MessagesAssumption ==
  /\ {MaxRecord, MaxCapture, Overhead, MaxSafe, MaxClock} \subseteq Nat
  /\ MaxCapture + Overhead <= MaxRecord /\ MaxRecord <= MaxSafe
  /\ Bytes \subseteq 0..MaxSafe

VARIABLES
  identity,  \* what the configuration says: collector, source, key
  clock,     \* the Collector's clock
  started,   \* started_at
  received,  \* events_received, for all counters
  pending,   \* the rejection in pending/: None or <<document>>
  refused,   \* history: the Collector refused a document of its own
  reply      \* what the backend says of the document of this step: None or <<[doc, says]>>

messageVars == <<identity, clock, started, received, pending, refused, reply>>

None == <<>>

\* matches_identifier of the Collector allows a mark at either end.
Identifier == {"name", "name with a mark at an end"}

-----------------------------------------------------------------------------
(* The configuration that a Collector starts with: its file, and what the  *)
(* environment overrides of it.  Only the names and the secret: the checks *)
(* of directories, limits and times end the start as these do.             *)

Unset == "unset"

\* Names as somebody writes them; one in capitals is no identifier.
Written == Identifier \cup {"NAME", Unset}

\* A secret has 64 hexadecimal digits; a file of it is the owner's only.
Secret == {"secret", "malformed", Unset}
SecretFile == Secret \cup {"exposed"}

ConfigurationFile ==
  [collector : Written, source : Written, key : Key \cup {Unset}, secret : SecretFile]
Environment == [collector : Written, direct : Secret, secret : SecretFile]

\* parse_yaml: only the file of the secret may be left out.
Parses(file) == Unset \notin {file.collector, file.source, file.key}

\* apply_environment.
ApplyEnvironment(file, env) ==
  IF env.collector = Unset THEN file ELSE [file EXCEPT !.collector = env.collector]

\* validate_configuration.
ValidConfiguration(c) == {c.collector, c.source} \subseteq Identifier

\* read_secret_file, up to its content.
SecretReadable(secret) == secret \notin {"exposed", Unset}

\* load_secret: the environment's, or else that of the file; never of two places.
HasSecret(file, env) ==
  \/ env.direct = "secret" /\ env.secret = Unset
  \/ /\ env.direct = Unset
     /\ LET from == IF env.secret # Unset THEN env.secret ELSE file.secret
        IN  SecretReadable(from) /\ from = "secret"

\* ConfigLoader::load; the configuration is validated again once it is changed.
Loads(file, env) ==
  /\ Parses(file) /\ ValidConfiguration(file)
  /\ ValidConfiguration(ApplyEnvironment(file, env))
  /\ HasSecret(file, env)

\* Under which names a Collector may run.
Configured ==
  {LET c == ApplyEnvironment(s[1], s[2])
   IN  [collector |-> c.collector, source |-> c.source, key |-> c.key] :
     s \in {loaded \in ConfigurationFile \X Environment : Loads(loaded[1], loaded[2])}}

-----------------------------------------------------------------------------
(* Rejections.                                                             *)

ReaderCodes == {"invalid_utf8", "invalid_json", "missing_required_field", "invalid_field_type"}
MapperCodes ==
  {"missing_required_field", "invalid_field_type", "unsupported_event_type",
   "invalid_ip_address", "invalid_timestamp"}

\* RejectionCode, RejectionStage.
Codes ==
  ReaderCodes \cup MapperCodes \cup {"record_too_large", "mapping_failed", "ocsf_validation_failed"}
Stages == {"input_validation"}

Captured(n) == IF n <= MaxCapture THEN n ELSE MaxCapture

\* Mutant: a payload of exactly the limit counts as cut.
InputRejectionAtLimit(adapter, code, n) ==
  [adapter |-> adapter, code |-> code, span |-> n + 1, length |-> n,
   captured |-> Captured(n), truncated |-> n >= MaxCapture, digest |-> "hex"]

\* A line of n bytes and the byte that ended it.
InputRejection(adapter, code, n) ==
  [adapter |-> adapter, code |-> code, span |-> n + 1, length |-> n,
   captured |-> Captured(n), truncated |-> n > Captured(n), digest |-> "hex"]

\* finish_record; a longer line is captured as any other.
RejectedByReader(n) ==
  {InputRejection("file_drop", c, n) :
     c \in IF n > MaxRecord THEN {"record_too_large"}
           ELSE IF n = 0 THEN {"invalid_json"} ELSE ReaderCodes}

\* BaselineMapper::map, of lines that were read.
RejectedByMapper(n) ==
  {InputRejection("file", c, n) : c \in IF n \in 1..MaxRecord THEN MapperCodes ELSE {}}

\* reject_event: an event that the queue or the assembler does not take.
RejectedByRuntime(n) ==
  {InputRejection("file", c, n) :
     c \in IF n \in 1..MaxRecord THEN {"record_too_large", "ocsf_validation_failed"} ELSE {}}

\* Everything that is rejected of a line.
Inputs(n) == RejectedByReader(n) \cup RejectedByMapper(n) \cup RejectedByRuntime(n)

\* publish_rejection.
Rejection(input) ==
  [type |-> "rejected_event", collector |-> identity.collector, source |-> identity.source,
   stage |-> "input_validation", input |-> input, key |-> identity.key, intact |-> TRUE]

\* validate_rejected_payload.
ValidPayload(p) ==
  /\ p.digest = "hex" /\ p.length <= MaxSafe /\ p.captured <= MaxCapture
  /\ IF p.truncated THEN p.length > MaxCapture /\ p.captured = MaxCapture
     ELSE p.captured = p.length

\* to_json_document of a rejection.
WritesRejection(d) ==
  /\ d.type = "rejected_event" /\ d.collector \in Identifier
  /\ d.input.span >= 0 /\ ValidPayload(d.input)

\* parse_rejected_source and parse_rejection, with the lists that they know.
ParsesCause(d) == d.input.span >= 0 /\ d.stage \in Stages /\ d.input.code \in Codes

\* parse_rejected_event, of a file of at most MaxRecord bytes.
ReadsRejection(d) ==
  /\ d.input.captured + Overhead <= MaxRecord
  /\ ParsesCause(d)
  /\ WritesRejection(d)

-----------------------------------------------------------------------------
(* Heartbeats.                                                             *)

\* Mutant: the counter is not bounded.
SaturateNever(n) == n

\* OperationalMetrics::increment.
Saturate(n) == IF n > MaxSafe THEN MaxSafe ELSE n

Status == {"online", "degraded", "shutting_down"}

\* publish_locked.
Heartbeat(status) ==
  [type |-> "heartbeat", collector |-> identity.collector, started |-> started, at |-> clock,
   received |-> received, status |-> status, key |-> identity.key, intact |-> TRUE]

\* validate_heartbeat_metrics: each counter is a number JSON can hold.
ValidMetrics(d) == d.received <= MaxSafe

\* to_json_document of a heartbeat.
WritesHeartbeat(d) ==
  d.type = "heartbeat" /\ d.collector \in Identifier /\ ValidMetrics(d)

-----------------------------------------------------------------------------
(* The backend.                                                            *)

CodesOf ==
  [input_validation |-> Codes \ {"mapping_failed", "ocsf_validation_failed"},
   mapping |-> {"mapping_failed"}, ocsf_validation |-> {"ocsf_validation_failed"}]

\* rejectedSource, rejection, rejectedPayload and the document around them.
RejectedEventSchema(d) ==
  /\ d.collector = "name" /\ d.source = "name" /\ d.input.adapter = "file"
  /\ d.stage \in DOMAIN CodesOf /\ d.input.code \in CodesOf[d.stage]
  /\ d.input.length <= MaxSafe /\ d.input.digest = "sha256:hex"

HeartbeatSchema(d) == d.collector = "name" /\ d.received <= MaxSafe

\* validateRejectedEvent.
RejectedEventMakesSense(d) ==
  /\ IF d.input.truncated THEN d.input.captured <= MaxCapture
     ELSE d.input.captured = d.input.length
  /\ d.input.span > 0

\* Mutant: a heartbeat of the instant the Collector started in is refused.
HeartbeatMakesSenseLater(d) == d.started < d.at /\ d.status \in Status

\* validateHeartbeat.
HeartbeatMakesSense(d) == d.started <= d.at /\ d.status \in Status

\* VerifyCollectorMessageService.verify; nothing in the backend collects the
\* rejections, so that of a rejection is what it says when it is given one.
Believes(d) ==
  /\ d.key \in Trusted /\ d.intact
  /\ IF d.type = "heartbeat" THEN HeartbeatSchema(d) /\ HeartbeatMakesSense(d)
     ELSE RejectedEventSchema(d) /\ RejectedEventMakesSense(d)

-----------------------------------------------------------------------------
(* The steps.                                                              *)

MessagesInit ==
  /\ identity \in Configured
  /\ clock = 0 /\ started = 0 /\ received = 0
  /\ pending = None /\ refused = FALSE /\ reply = None

Receive(n) ==
  /\ received' = Saturate(received + n)
  /\ UNCHANGED <<identity, clock, started, pending, refused>> /\ reply' = None

\* The clock goes on, or is set back.
Clock ==
  /\ clock' \in 0..MaxClock /\ clock' \in {clock - 1, clock + 1}
  /\ UNCHANGED <<identity, started, received, pending, refused>> /\ reply' = None

\* The backend reads the document as it was written, or with a byte changed.
Read(d) ==
  \E intact \in BOOLEAN :
    LET doc == [d EXCEPT !.intact = intact] IN reply' = <<[doc |-> doc, says |-> Believes(doc)]>>

\* publish_locked: the file is replaced, or nothing is written.
Beat(status) ==
  /\ LET d == Heartbeat(status) IN
       IF WritesHeartbeat(d) THEN Read(d) /\ UNCHANGED refused
       ELSE refused' = TRUE /\ reply' = None
  /\ UNCHANGED <<identity, clock, started, received, pending>>

\* publish_signed, up to the durable file in pending/.
Reject(n) ==
  /\ pending = None
  /\ \E input \in Inputs(n) :
       LET d == Rejection(input) IN
         IF WritesRejection(d) THEN pending' = <<d>> /\ UNCHANGED refused
         ELSE refused' = TRUE /\ UNCHANGED pending
  /\ UNCHANGED <<identity, clock, started, received>> /\ reply' = None

\* publish_pending: the record is stored and the pending file removed.
Store ==
  /\ pending # None
  /\ pending' = None
  /\ Read(pending[1])
  /\ UNCHANGED <<identity, clock, started, received, refused>>

\* recover, which stores what is in pending/; a rejection that it cannot read
\* ends the start.
Recover ==
  IF pending = None THEN reply' = None /\ UNCHANGED <<pending, refused>>
  ELSE IF ReadsRejection(pending[1])
  THEN pending' = None /\ Read(pending[1]) /\ UNCHANGED refused
  ELSE refused' = TRUE /\ reply' = None /\ UNCHANGED pending

\* The process ends and another starts.
Restart ==
  /\ started' = clock /\ received' = 0
  /\ Recover
  /\ UNCHANGED <<identity, clock>>

MessagesNext ==
  \/ \E n \in Bytes : Receive(n) \/ Reject(n)
  \/ Clock \/ Store \/ Restart
  \/ \E status \in Status : Beat(status)

MessagesSpec == MessagesInit /\ [][MessagesNext]_messageVars

-----------------------------------------------------------------------------
(* Properties.                                                             *)

MessagesTypeOK ==
  /\ identity \in [collector : Identifier, source : Identifier, key : Key]
  /\ clock \in 0..MaxClock /\ started \in 0..MaxClock /\ received \in 0..MaxSafe
  /\ Len(pending) <= 1 /\ Len(reply) <= 1 /\ refused \in BOOLEAN

\* The Collector never refuses a document it made itself: no heartbeat fails
\* for its content, the pipeline does not stop at a rejection, and the start
\* after a crash can read what the process before it left.
OwnDocumentsPass == ~refused

\* The backend believes a heartbeat exactly if it comes as it was signed with
\* a key it knows, the Collector's name has no mark at an end, and its clock
\* was not set back behind its start.
HeartbeatAgrees ==
  \A v \in ToSet(reply) : v.doc.type = "heartbeat" =>
    (v.says <=> /\ v.doc.intact /\ v.doc.key \in Trusted
                /\ v.doc.collector = "name" /\ v.doc.started <= v.doc.at)

MessagesAgree == OwnDocumentsPass /\ HeartbeatAgrees

\* What the contract asks of a rejection: the schema it names is normative.
RejectionConforms ==
  \A v \in ToSet(reply) :
    (/\ v.doc.type = "rejected_event" /\ v.doc.intact /\ v.doc.key \in Trusted
     /\ v.doc.collector = "name" /\ v.doc.source = "name") => v.says
=============================================================================
