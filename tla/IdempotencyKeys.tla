--------------------------- MODULE IdempotencyKeys ---------------------------
(***************************************************************************)
(* app/core/idempotency/keys.py, and the choice the task wrapper makes     *)
(* between a key that came with the message and one it generates: which    *)
(* calls share a key, and for how long.                                    *)
(*                                                                         *)
(* A call names a task and carries a sequence of arguments and a function  *)
(* from keyword names to arguments, so that the order of keywords, which   *)
(* sort_keys=True makes irrelevant, does not exist here.                   *)
(*                                                                         *)
(* A key is a text; what matters of a text is where its colons are, so it  *)
(* is the sequence of what stands between them.  SHA-256 is taken to be    *)
(* free of collisions: a digest, which has no colon, is what was hashed.   *)
(***************************************************************************)
EXTENDS Integers, Sequences
LOCAL INSTANCE SequencesExt

CONSTANTS JsonText,     \* json.dumps(.., default=str) of each argument
          NotGiven      \* a None, or an empty string, which counts as one

\* A dictionary's values, or a list's items, as json.dumps writes them:
\* arguments that differ may become the same text (a UUID and its string).
Texts(values) == [i \in DOMAIN values |-> JsonText[values[i]]]

\* args or [], kwargs or {}: a missing list or dictionary is an empty one.
Given(values) == IF values = NotGiven THEN <<>> ELSE values

Hash(what) == << <<"sha256", what>> >>

\* int(now // time_window_seconds)
WindowOf(now, seconds) == now \div seconds

\* A window takes precedence over a time stamp; a window of 0 is none.
When(stamped, seconds, now) ==
    CASE seconds > 0 -> <<"time_window", WindowOf(now, seconds)>>
      [] seconds = 0 /\ stamped -> <<"timestamp", now>>
      [] OTHER -> <<"any time">>

Fingerprint(call, when) ==
    [task |-> call.task, args |-> Texts(Given(call.args)),
     kwargs |-> Texts(Given(call.kwargs)), when |-> when]

\* A custom key is used as it is.
generate_idempotency_key(call, custom, stamped, seconds, now) ==
    IF custom # NotGiven THEN custom
    ELSE Hash(Fingerprint(call, When(stamped, seconds, now)))

-----------------------------------------------------------------------------
(***************************************************************************)
(* The generators: operators from a call, and the time, to a key.          *)
(***************************************************************************)

TaskBased(call, now) ==
    generate_idempotency_key(call, NotGiven, FALSE, 0, now)

TimeWindow(seconds, call, now) ==
    generate_idempotency_key(call, NotGiven, FALSE, seconds, now)

\* The generators' keys joined with ":", which does not tell where a key that
\* has colons of its own ends.
Composite(keys) == Hash(FlattenSeq(keys))

Custom(keyFunc, call) ==
    keyFunc[call.task, Given(call.args), Given(call.kwargs)]

\* The wrapper: the key in the message's headers, else the decorator's own
\* function of the arguments, else the function's name and the arguments.
WrapperKey(header, keyFunc, call, now) ==
    IF header # NotGiven THEN header
    ELSE IF keyFunc # NotGiven THEN keyFunc[Given(call.args), Given(call.kwargs)]
    ELSE TaskBased(call, now)
=============================================================================
