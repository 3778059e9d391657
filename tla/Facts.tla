------------------------------- MODULE Facts -------------------------------
(***************************************************************************)
(* Facts that the proofs about several components cite: division, for what *)
(* is named after the minute or the window that a time falls into, and     *)
(* what the commands of module Redis return, for any set K of key names    *)
(* and V of values.                                                        *)
(***************************************************************************)
EXTENDS Redis, TLAPS

\* Division with remainder.
LEMMA Quotient ==
  ASSUME NEW n \in Nat, NEW d \in Nat \ {0}
  PROVE  /\ n \div d \in Nat
         /\ (n \div d) * d <= n
         /\ n < (n \div d) * d + d
BY SMT

\* A smaller quotient is one of a smaller number.
LEMMA Products ==
  ASSUME NEW a \in Nat, NEW b \in Nat, NEW d \in Nat \ {0}, a < b
  PROVE  a * d + d <= b * d
<1>1. PICK c \in Nat : b = a + 1 + c
  <2>1. b - a - 1 \in Nat /\ b = a + 1 + (b - a - 1)
    OBVIOUS
  <2> QED
    BY <2>1
<1>2. (a + 1 + c) * d = a * d + d + c * d /\ c * d \in Nat
  BY SMT
<1> QED
  BY <1>1, <1>2

\* Numbers with the same quotient are less than the divisor apart.
LEMMA SameQuotient ==
  ASSUME NEW s \in Nat, NEW t \in Nat, NEW d \in Nat \ {0},
         s \div d = t \div d
  PROVE  s < t + d
<1>1. s < (s \div d) * d + d /\ (t \div d) * d <= t
  BY Quotient
<1>2. (s \div d) * d \in Nat /\ (t \div d) * d \in Nat
  BY Quotient
<1> QED
  BY <1>1, <1>2

\* A larger number has no smaller quotient.
LEMMA QuotientMonotone ==
  ASSUME NEW s \in Nat, NEW t \in Nat, NEW d \in Nat \ {0}, s <= t
  PROVE  s \div d <= t \div d
<1>1. PICK m \in Nat : m = s \div d /\ m * d <= s
  BY Quotient
<1>2. PICK n \in Nat : n = t \div d /\ t < n * d + d
  BY Quotient
<1>3. m * d \in Nat /\ n * d \in Nat
  BY <1>1, <1>2
<1>4. n < m => n * d + d <= m * d
  BY <1>1, <1>2, Products
<1> QED
  BY <1>1, <1>2, <1>3, <1>4

\* What leaves no remainder is a multiple.
LEMMA NoRemainder ==
  ASSUME NEW n \in Nat, NEW d \in Nat \ {0}, n % d = 0
  PROVE  n = (n \div d) * d
BY SMT

-----------------------------------------------------------------------------

\* The database before the first command is well formed.
LEMMA EmptyType ==
  ASSUME NEW K, NEW V
  PROVE  Empty(K) \in [K -> Entry(V)]
BY DEF Empty, Absent, Entry, Ttl, Missing

\* SET .. EX keeps the database well formed, and touches one key.
LEMMA SetExEffect ==
  ASSUME NEW K, NEW V, NEW db \in [K -> Entry(V)],
         NEW k \in K, NEW v \in V, NEW s \in Nat \ {0}
  PROVE  /\ SetEx(db, k, v, s) \in [K -> Entry(V)]
         /\ SetEx(db, k, v, s)[k].ttl = s
         /\ Exists(SetEx(db, k, v, s), k)
         /\ Get(SetEx(db, k, v, s), k) = v
         /\ \A m \in K : m # k => SetEx(db, k, v, s)[m] = db[m]
<1>1. [val |-> v, ttl |-> s] \in Entry(V)
  BY DEF Entry, Ttl, Missing, Persistent
<1>2. s # Missing
  BY DEF Missing
<1> QED
  BY <1>1, <1>2 DEF SetEx, Exists, Get

\* SET .. NX EX is SET .. EX on a missing key and nothing on a present one.
LEMMA SetNxExEffect ==
  ASSUME NEW K, NEW V, NEW db \in [K -> Entry(V)],
         NEW k \in K, NEW v \in V, NEW s \in Nat \ {0}
  PROVE  /\ SetNxEx(db, k, v, s) \in [K -> Entry(V)]
         /\ Exists(db, k) => SetNxEx(db, k, v, s) = db
         /\ ~Exists(db, k) => /\ Exists(SetNxEx(db, k, v, s), k)
                              /\ SetNxEx(db, k, v, s)[k].ttl = s
                              /\ Get(SetNxEx(db, k, v, s), k) = v
         /\ \A m \in K : m # k => SetNxEx(db, k, v, s)[m] = db[m]
<1>1. CASE Exists(db, k)
  BY <1>1 DEF SetNxEx
<1>2. CASE ~Exists(db, k)
  <2>1. SetNxEx(db, k, v, s) = SetEx(db, k, v, s)
    BY <1>2 DEF SetNxEx
  <2> QED
    BY <2>1, <1>2, SetExEffect
<1> QED
  BY <1>1, <1>2

\* DEL keeps the database well formed, and removes the keys it names only.
LEMMA DelEffect ==
  ASSUME NEW K, NEW V, NEW db \in [K -> Entry(V)], NEW D
  PROVE  /\ Del(db, D) \in [K -> Entry(V)]
         /\ \A m \in K : m \in D => Del(db, D)[m] = Absent
         /\ \A m \in K : m \notin D => Del(db, D)[m] = db[m]
<1>1. Absent \in Entry(V)
  BY DEF Entry, Absent, Ttl
<1>2. DOMAIN db = K
  OBVIOUS
<1> QED
  BY <1>1, <1>2 DEF Del

\* A second that passes keeps an entry well formed.  It removes it exactly
\* when one second was left, and otherwise leaves its value alone.
LEMMA AgedEffect ==
  ASSUME NEW V, NEW e \in Entry(V)
  PROVE  /\ Aged(e) \in Entry(V)
         /\ e.ttl = 1 => Aged(e) = Absent
         /\ e.ttl # 1 => /\ Aged(e).val = e.val
                         /\ Aged(e).ttl = Missing <=> e.ttl = Missing
         /\ e.ttl > 1 => Aged(e).ttl = e.ttl - 1
<1>1. e \in [val : V \cup {Nil}, ttl : Ttl] /\ (e.ttl = Missing => e = Absent)
  BY DEF Entry
<1>2. CASE e.ttl = 1
  BY <1>2 DEF Aged, Entry, Absent, Ttl
<1>3. CASE e.ttl > 1
  <2>1. Aged(e) = [e EXCEPT !.ttl = e.ttl - 1]
    BY <1>3, <1>1 DEF Aged
  <2>2. e.ttl \in Int
    BY <1>1 DEF Ttl, Missing, Persistent
  <2>3. e.ttl - 1 \in Nat \ {0} /\ e.ttl - 1 # Missing /\ e.ttl # Missing
    BY <2>2, <1>3 DEF Missing
  <2>4. Aged(e) = [val |-> e.val, ttl |-> e.ttl - 1]
    BY <2>1, <1>1
  <2> QED
    BY <2>3, <2>4, <1>1, <1>3 DEF Entry, Ttl
<1>4. CASE e.ttl # 1 /\ ~(e.ttl > 1)
  BY <1>4, <1>1 DEF Aged
<1> QED
  BY <1>2, <1>3, <1>4

\* The same for the whole database.
LEMMA ElapseEffect ==
  ASSUME NEW K, NEW V, NEW db \in [K -> Entry(V)]
  PROVE  /\ Elapse(db) \in [K -> Entry(V)]
         /\ \A m \in K : m \in Expiring(db) => Elapse(db)[m] = Absent
         /\ \A m \in K : m \notin Expiring(db) =>
              /\ Get(Elapse(db), m) = Get(db, m)
              /\ Exists(Elapse(db), m) <=> Exists(db, m)
         /\ \A m \in K : db[m].ttl > 1 => Elapse(db)[m].ttl = db[m].ttl - 1
         /\ \A m \in K : m \in Expiring(db) <=> db[m].ttl = 1
<1>1. DOMAIN db = K
  OBVIOUS
<1>2. \A m \in K : Elapse(db)[m] = Aged(db[m])
  BY <1>1 DEF Elapse
<1>3. \A m \in K : db[m] \in Entry(V)
  OBVIOUS
<1>4. Elapse(db) \in [K -> Entry(V)]
  BY <1>1, <1>3, AgedEffect DEF Elapse
<1>5. \A m \in K : m \in Expiring(db) <=> db[m].ttl = 1
  BY <1>1 DEF Expiring
<1> QED
  BY <1>2, <1>3, <1>4, <1>5, AgedEffect DEF Get, Exists

\* EXPIRE gives an existing key its new time to live and does nothing to any
\* other, nor to any value.
LEMMA ExpireEffect ==
  ASSUME NEW K, NEW V, NEW db \in [K -> Entry(V)],
         NEW k \in K, NEW s \in Nat \ {0}
  PROVE  /\ Expire(db, k, s) \in [K -> Entry(V)]
         /\ Exists(db, k) => Expire(db, k, s)[k].ttl = s
         /\ \A m \in K : /\ Get(Expire(db, k, s), m) = Get(db, m)
                         /\ Exists(Expire(db, k, s), m) <=> Exists(db, m)
                         /\ m # k => Expire(db, k, s)[m] = db[m]
<1>1. CASE ~Exists(db, k)
  BY <1>1 DEF Expire
<1>2. CASE Exists(db, k)
  <2>1. Expire(db, k, s) = [db EXCEPT ![k] = [db[k] EXCEPT !.ttl = s]]
    BY <1>2 DEF Expire
  <2>2. db[k] \in [val : V \cup {Nil}, ttl : Ttl]
    BY DEF Entry
  <2>3. [db[k] EXCEPT !.ttl = s] = [val |-> db[k].val, ttl |-> s]
    BY <2>2
  <2>4. [val |-> db[k].val, ttl |-> s] \in Entry(V) /\ s # Missing
    BY <2>2 DEF Entry, Ttl, Missing
  <2> QED
    BY <1>2, <2>1, <2>3, <2>4 DEF Exists, Get
<1> QED
  BY <1>1, <1>2
=============================================================================
