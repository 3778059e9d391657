------------------------------- MODULE Redis -------------------------------
(***************************************************************************)
(* The part of Redis the program relies on: string keys with an expiry.    *)
(* Redis is a service outside the repository, so the operators below are   *)
(* read off the commands the code sends (SET .. NX EX, SET .. EX, GET,     *)
(* TTL, EXPIRE, EXISTS, DEL, and the two Lua scripts).  Redis executes one *)
(* command, one script and one MULTI block at a time, so each operator is  *)
(* one atomic step over the whole database.                                *)
(*                                                                         *)
(* A database is a function from key names to entries.  The ttl of an      *)
(* entry is what the TTL command answers: the seconds that remain, or -1   *)
(* for a key without an expiry, or -2 for a key that does not exist.       *)
(***************************************************************************)
EXTENDS Integers

CONSTANT Nil            \* the value of a missing key

Missing == -2
Persistent == -1
Ttl == {Missing, Persistent} \cup (Nat \ {0})

Absent == [val |-> Nil, ttl |-> Missing]

Entry(Value) == {e \in [val : Value \cup {Nil}, ttl : Ttl] :
                   e.ttl = Missing => e = Absent}

Empty(keys) == [k \in keys |-> Absent]

Exists(db, k) == db[k].ttl # Missing
Get(db, k) == db[k].val

\* SET key value EX seconds
SetEx(db, k, v, seconds) == [db EXCEPT ![k] = [val |-> v, ttl |-> seconds]]

\* SET key value NX EX seconds
SetNxEx(db, k, v, seconds) ==
    IF Exists(db, k) THEN db ELSE SetEx(db, k, v, seconds)

\* DEL key key ..
Del(db, keys) == [k \in DOMAIN db |-> IF k \in keys THEN Absent ELSE db[k]]

\* EXPIRE key seconds
Expire(db, k, seconds) ==
    IF Exists(db, k) THEN [db EXCEPT ![k].ttl = seconds] ELSE db

\* A second passes.
Aged(e) == CASE e.ttl = 1 -> Absent
             [] e.ttl > 1 -> [e EXCEPT !.ttl = @ - 1]
             [] OTHER -> e

Elapse(db) == [k \in DOMAIN db |-> Aged(db[k])]

\* The keys that are gone when the next second has passed.
Expiring(db) == {k \in DOMAIN db : db[k].ttl = 1}

\* Time is of no further consequence once no entry carries an expiry.
SomeExpiry(db) == \E k \in DOMAIN db : db[k].ttl > 0
============================================================================
