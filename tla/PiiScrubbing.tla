------------------------------ MODULE PiiScrubbing ------------------------------
(***************************************************************************)
(* What keeps personal data out of the log and of the audit trail: _scrub  *)
(* and its two callers, the JSON formatter (apps/core/logging.py) and      *)
(* AuditLog.log (apps/audit/models.py).  A behaviour is one call of either *)
(* and leaves what it wrote.                                               *)
(*                                                                         *)
(* A value is a dict, a list, a string or any other object.  A string is   *)
(* the sequence of the words and the e-mail addresses it is made of; of    *)
(* any other object only the text matters that json.dumps makes of it.     *)
(***************************************************************************)
EXTENDS Integers, Sequences, FiniteSetsExt

CONSTANTS
  Lower,               \* str.lower: [keys of dicts -> keys of dicts]
  SensitiveKeys,       \* _SENSITIVE_KEYS
  SkippedKeys,         \* _SKIP, and every attribute that starts with "_"
  AddressKeys,         \* the keys that hold an e-mail address
  MaxNesting,          \* how deep values nest: Python's limit to recursion
  Nested,              \* the values there are: Nested[n] those that nest n deep
  Messages, Errors,    \* texts of log messages and of tracebacks
  Attributes,          \* the __dict__ of log records: dicts by attribute
  Snapshots            \* what AuditLog.log is given as old_data or new_data

VARIABLES
  given,               \* the record or the snapshot of the call
  written              \* the payload that is dumped, or the column that is stored

vars == <<given, written>>

Text(words)    == [kind |-> "str", words |-> words]
List(items)    == [kind |-> "list", items |-> items]
Dict(fields)   == [kind |-> "dict", fields |-> fields]
Object(words)  == [kind |-> "other", shown |-> words]
None           == Object(<<>>)
Redacted       == Text(<<"redacted">>)

Keys   == DOMAIN Lower
Words  == {"word", "email", "masked", "redacted"}
Values == UNION {Nested[n] : n \in 0..MaxNesting}

\* What nests n deep: texts and objects, of which _scrub asks for nothing else, and
\* dicts and lists of values that nest less deep.  Nested may hold all of them.
WellNested(v, n) ==
  \/ v \in [kind : {"str"}, words : Seq(Words)]
  \/ v \in [kind : {"other"}, shown : Seq(Words)]
  \/ /\ n > 0 /\ v.kind = "dict" /\ DOMAIN v.fields \subseteq Keys
     /\ v \in [kind : {"dict"}, fields : [DOMAIN v.fields -> Nested[n-1]]]
  \/ n > 0 /\ v \in [kind : {"list"}, items : Seq(Nested[n-1])]

Records == [message : Messages, attributes : Attributes, exc_info : Errors \cup {None}]

ASSUME PiiAssumption ==
  /\ Lower \in [Keys -> Keys]
  /\ {"level", "logger", "message", "time", "exc"} \subseteq Keys
  /\ "message" \in SkippedKeys
  /\ AddressKeys \subseteq Keys \ {"level", "logger", "message", "time", "exc"}
  /\ MaxNesting \in Nat \ {0}
  /\ \A n \in 0..MaxNesting : \A v \in Nested[n] : WellNested(v, n)
  /\ {Redacted, Text(<<"word">>)} \cup Messages \cup Errors \subseteq Nested[0]
  /\ \A m \in Messages \cup Errors : m.kind = "str"
  /\ \A e \in Errors : List(<<e>>) \in Nested[1]
  /\ \A extra \in Attributes :
       DOMAIN extra \subseteq Keys /\ \A k \in DOMAIN extra : extra[k] \in Values
  /\ \A data \in Snapshots \ {None} : data \in Values /\ data.kind = "dict"

\* Mutant: only the first address of a text is replaced.
MaskedFirst(words) ==
  [i \in DOMAIN words |-> IF words[i] = "email" /\ \A j \in 1..i-1 : words[j] # "email"
                          THEN "masked" ELSE words[i]]

\* _EMAIL_RE.sub: every address in the text, and nothing else.
Masked(words) == [i \in DOMAIN words |-> IF words[i] = "email" THEN "masked" ELSE words[i]]

-------------------------------------------------------------------------------
\* Mutant: the key is compared as it is written.
ScrubCallAsWritten(value, scrub) ==
  CASE value.kind = "dict" ->
         Dict([k \in DOMAIN value.fields |->
                 IF k \in SensitiveKeys THEN Redacted ELSE scrub[value.fields[k]]])
    [] value.kind = "list" -> List([i \in DOMAIN value.items |-> scrub[value.items[i]]])
    [] value.kind = "str" -> Text(Masked(value.words))
    [] OTHER -> value

\* One call of _scrub, given what those it makes return.
ScrubCall(value, scrub) ==
  CASE value.kind = "dict" ->
         Dict([k \in DOMAIN value.fields |->
                 IF Lower[k] \in SensitiveKeys THEN Redacted ELSE scrub[value.fields[k]]])
    [] value.kind = "list" -> List([i \in DOMAIN value.items |-> scrub[value.items[i]]])
    [] value.kind = "str" -> Text(Masked(value.words))
    [] OTHER -> value

Scrub[value \in Values] == ScrubCall(value, Scrub)

Init ==
  /\ given \in Records \cup Snapshots
  /\ written = None

\* What PiiScrubbingJsonFormatter.format dumps.  The attributes are added to the four
\* fields of every line and may replace them; the traceback comes last, as it is.
Payload(record) ==
  LET exc   == IF record.exc_info = None THEN {} ELSE {"exc"}
      extra == DOMAIN record.attributes \ SkippedKeys
  IN  Dict([k \in {"level", "logger", "message", "time"} \cup extra \cup exc |->
              CASE k \in exc -> List(<<record.exc_info>>)
                [] k \in extra \ exc -> Scrub[record.attributes[k]]
                [] k \notin extra \cup exc ->
                     IF k = "message" THEN Scrub[record.message] ELSE Text(<<"word">>)])

Format ==
  /\ written = None
  /\ given \in Records
  /\ written' = Payload(given)
  /\ UNCHANGED given

\* Mutant: an empty snapshot is scrubbed and stored like any other.
LogEmpty ==
  /\ written = None
  /\ given \in Snapshots /\ given # None
  /\ written' = Scrub[given]
  /\ UNCHANGED given

\* AuditLog.log, for either of its two snapshots: a falsy one is stored as None,
\* which leaves nothing to log.
Log ==
  /\ written = None
  /\ given \in Snapshots /\ given \notin {None, Dict(<<>>)}
  /\ written' = Scrub[given]
  /\ UNCHANGED given

Next == Format \/ Log

Spec == Init /\ [][Next]_vars

-------------------------------------------------------------------------------
(* The leaves of a value: what is not a dict or a list with something in it, with *)
(* the path that leads there.                                                     *)

Shown == Values \cup {Scrub[v] : v \in Values}

Below(step, leaves) == {[path |-> <<step>> \o leaf.path, value |-> leaf.value] : leaf \in leaves}

LeavesBy(value, leaves) ==
  CASE value.kind = "dict" /\ DOMAIN value.fields # {} ->
         UNION {Below(<<"key", k>>, leaves[value.fields[k]]) : k \in DOMAIN value.fields}
    [] value.kind = "list" /\ DOMAIN value.items # {} ->
         UNION {Below(<<"item", i>>, leaves[value.items[i]]) : i \in DOMAIN value.items}
    [] OTHER -> {[path |-> <<>>, value |-> value]}

Leaves[value \in Shown] == LeavesBy(value, Leaves)

\* The steps of a path that go through a sensitive key.
SensitiveSteps(path) ==
  {i \in DOMAIN path : path[i][1] = "key" /\ Lower[path[i][2]] \in SensitiveKeys}

\* What must become of a leaf: everything below a sensitive key shrinks to one
\* redacted text, addresses are masked, the rest stays where and what it is.
Expected(leaf) ==
  IF SensitiveSteps(leaf.path) # {}
  THEN [path |-> SubSeq(leaf.path, 1, Min(SensitiveSteps(leaf.path))), value |-> Redacted]
  ELSE IF leaf.value.kind = "str"
  THEN [path |-> leaf.path, value |-> Text(Masked(leaf.value.words))]
  ELSE leaf

-------------------------------------------------------------------------------
(* Properties *)

TypeOK ==
  /\ given \in Records \cup Snapshots
  /\ \/ written = None
     \/ /\ written = Dict(written.fields)
        /\ DOMAIN written.fields # {} /\ DOMAIN written.fields \subseteq Keys
        /\ \A k \in DOMAIN written.fields : written.fields[k] \in Shown

\* What the call scrubs, with what it makes of it.
Scrubbed ==
  IF given \in Snapshots THEN {<<given, written>>}
  ELSE LET replaced == IF given.exc_info = None THEN {} ELSE {"exc"}
           kept     == DOMAIN given.attributes \ (SkippedKeys \cup replaced)
       IN  {<<given.message, written.fields["message"]>>}
             \cup {<<given.attributes[k], written.fields[k]>> : k \in kept}

\* Whatever the nesting, the recursion does to every leaf what it should by the keys
\* on its path, and loses, moves and adds nothing else.
ScrubMeetsReference ==
  written # None =>
    \A pair \in Scrubbed :
      Leaves[pair[2]] = {Expected(leaf) : leaf \in Leaves[pair[1]]}

\* The traceback of a line, which format_exception wrote.
InTraceback(leaf) ==
  given \in Records /\ given.exc_info # None /\ leaf.path[1] = <<"key", "exc">>

\* The steps of a path that go through a key with an address in it, and what the call
\* was given to copy such keys from.
AddressSteps(path) == {i \in DOMAIN path : path[i][1] = "key" /\ path[i][2] \in AddressKeys}
Given == IF given \in Snapshots THEN given ELSE Dict(given.attributes)

\* No line and no snapshot shows an address, or what stood under a sensitive key, but
\* in the four places the code does not look at: objects other than dicts, lists and
\* strings; the traceback; the name of a record's attribute, sensitive or not; and the
\* keys of dicts, which _scrub copies as they are.  A key with an address is one that
\* stood in the same place of what was given: no address becomes a key.
NothingElseLeaks ==
  written # None =>
    \A leaf \in LeavesBy(written, Leaves) :
      \/ InTraceback(leaf)
      \/ /\ leaf.value.kind = "str" =>
              \A i \in DOMAIN leaf.value.words : leaf.value.words[i] # "email"
         /\ \A i \in SensitiveSteps(leaf.path) :
              leaf.value = Redacted \/ (i = 1 /\ given \in Records)
         /\ \A i \in AddressSteps(leaf.path) :
              \E from \in LeavesBy(Given, Leaves) :
                i \in DOMAIN from.path /\ \A j \in 1..i : from.path[j] = leaf.path[j]
===============================================================================
