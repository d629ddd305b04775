-------------------------- MODULE CacheRuntime_proofs --------------------------
(***************************************************************************)
(* The cache never answers with what a mutation has replaced, and closes   *)
(* only when everything was flushed, for every number of keys and calls.   *)
(***************************************************************************)
EXTENDS CacheRuntime, TLAPS

(* What follows is said of the mutations W (write) so that a step can be   *)
(* followed from the old ones to the new ones.                             *)

\* A call whose mutation was accepted.
Used(c) == write[c].at # "none"

\* The mutations whose callers changed the source: Accepted.
AcceptedIn(W) == {m \in Calls : W[m].floor > 0}

\* A mutation, settled or not.
Write ==
    [at : {"none", "accepted", "applied", "void"}, deps : SUBSET (Calls \cup {NoCall}),
     scope : SUBSET Key, version : Int, floor : Nat]

\* The value v is not older than any mutation of k in S, those that failed aside.
Reflects(W, v, S, k) ==
    \A m \in S : k \in W[m].scope /\ W[m].at # "void" => v >= W[m].floor

\* For each unsettled mutation of k in S, one in D is unsettled that came no earlier.
Covers(W, turn, D, S, k) ==
    \A w \in S : W[w].at = "accepted" /\ k \in W[w].scope =>
        \E d \in D : /\ d \in Calls /\ W[d].at = "accepted" /\ k \in W[d].scope
                     /\ turn[w] <= turn[d]

\* The types of the source, the entries, the revisions, the tails and the mutations.
StoreTyped ==
    /\ source \in Nat /\ entry \in [Key -> Entry]
    /\ revision \in [all : Nat, of : [Key -> Nat]]
    /\ tails \in [broad : Calls \cup {NoCall}, key : [Key -> Calls \cup {NoCall}]]
    /\ write \in [Calls -> Write]
    /\ \A k \in Key : /\ revision.of[k] <= revision.all
                      /\ entry[k].version = None => entry[k] = Miss

\* turn is the revision that each mutation was given.
Turns(turn) ==
    /\ turn \in [Calls -> Int]
    /\ \A m \in Calls :
         IF Used(m) THEN turn[m] > 0 /\ turn[m] <= revision.all /\ write[m].floor <= source
         ELSE write[m] = NoWrite
    /\ \A m, w \in Calls : Used(m) /\ Used(w) /\ turn[m] = turn[w] => m = w

\* An unsettled mutation waits behind the earlier ones of its keys, and the tails of a
\* key come behind all.
Ordered(turn) ==
    /\ \A m \in Unsettled : \A k \in write[m].scope :
          Covers(write, turn, write[m].deps, {w \in Calls : turn[w] < turn[m]}, k)
    /\ \A k \in Key : Covers(write, turn, {tails.broad, tails.key[k]}, Calls, k)

\* What an unsettled mutation will store is not older than the mutations it waits for and
\* those that have taken effect.
Forward(turn) ==
    \A w \in Unsettled : \A k \in write[w].scope : \A m \in Accepted :
       /\ write[w].version # None /\ k \in write[m].scope
       /\ write[m].at = "applied" \/ (m \in Unsettled /\ turn[m] <= turn[w])
       => write[w].version >= write[m].floor

\* What the order of the mutations keeps, of the entries and of those under way.
StoreInv(turn) ==
    StoreTyped /\ Turns(turn) /\ Ordered(turn) /\ Forward(turn) /\ NoResurrection

\* What a step does to the mutations at most: it accepts one, with a new revision, and it
\* settles one that waits for no other.
Onward(turn, next) ==
    /\ next \in [Calls -> Int] /\ revision' \in [all : Nat, of : [Key -> Nat]]
    /\ revision.all <= revision'.all
    /\ \A k \in Key : revision.of[k] <= revision'.of[k]
    /\ \A m \in Calls :
         IF Used(m)
         THEN /\ write'[m].scope = write[m].scope /\ write'[m].floor = write[m].floor
              /\ next[m] = turn[m] /\ write'[m].at # "none"
              /\ write[m].at # "accepted" => write'[m].at = write[m].at
              /\ write[m].at = "accepted" /\ write'[m].at # "accepted" =>
                    Settled(write[m].deps)
         ELSE write'[m].at # "none" =>
              /\ write'[m].at = "accepted" /\ next[m] > revision.all
              /\ \A k \in write'[m].scope \cap Key : revision'.of[k] > revision.of[k]
    /\ \A m \in Calls : ~Used(m) /\ write'[m].at = "none" => write'[m] = write[m]

--------------------------------------------------------------------------------
(* Mutations.                                                              *)

\* A mark raises the revision of its keys and lowers none.
LEMMA MarkedFacts ==
  ASSUME NEW K \in SUBSET Key, revision \in [all : Nat, of : [Key -> Nat]],
         \A k \in Key : revision.of[k] <= revision.all, Marked(K)
  PROVE  /\ revision' \in [all : Nat, of : [Key -> Nat]] /\ revision'.all = revision.all + 1
         /\ \A k \in Key : /\ revision'.of[k] <= revision'.all
                           /\ revision.of[k] <= revision'.of[k]
                           /\ k \in K => revision'.of[k] > revision.of[k]
BY DEF Marked

\* A mutation is accepted behind those before it.
LEMMA AcceptKeeps ==
  ASSUME CacheConstants, NEW turn, StoreInv(turn), NEW c \in Calls, ~Used(c),
         NEW K \in SUBSET Key,
         NEW broad \in BOOLEAN, broad => K = Key, NEW version \in Int, NEW floor \in Nat,
         Marked(K), Accepts(c, K, broad, version, floor), entry' = entry,
         source' \in Nat, source <= source', floor <= source',
         floor > 0 => version = None \/ version >= floor,
         version # None => \A k \in K : Reflects(write, version, Accepted, k),
         NEW next, next = [turn EXCEPT ![c] = revision.all + 1]
  PROVE  StoreInv(next)' /\ Onward(turn, next)
<1> DEFINE new == [at |-> "accepted", deps |-> Dependencies(K), scope |-> K,
                   version |-> version, floor |-> floor]
<1>1. /\ revision' \in [all : Nat, of : [Key -> Nat]] /\ revision'.all = revision.all + 1
      /\ revision.all \in Nat
      /\ \A k \in Key : /\ revision'.of[k] <= revision'.all
                        /\ revision.of[k] <= revision'.of[k]
                        /\ k \in K => revision'.of[k] > revision.of[k]
  BY MarkedFacts DEF StoreInv, StoreTyped
<1>2. /\ write \in [Calls -> Write] /\ turn \in [Calls -> Int]
      /\ tails \in [broad : Calls \cup {NoCall}, key : [Key -> Calls \cup {NoCall}]]
      /\ write[c] = NoWrite /\ NoCall \notin Calls
  BY CacheConstants DEF StoreInv, StoreTyped, Turns, CacheConstants
<1>3. new \in Write
  BY <1>2 DEF Write, Dependencies
<1>4. /\ write' \in [Calls -> Write] /\ write'[c] = new
      /\ \A m \in Calls \ {c} : write'[m] = write[m]
  BY <1>2, <1>3 DEF Accepts
<1>5. /\ next \in [Calls -> Int] /\ next[c] = revision.all + 1
      /\ \A m \in Calls \ {c} : next[m] = turn[m]
  BY <1>1, <1>2
<1>6. /\ tails' \in [broad : Calls \cup {NoCall}, key : [Key -> Calls \cup {NoCall}]]
      /\ broad => tails'.broad = c /\ tails'.key = tails.key
      /\ ~broad => /\ tails'.broad = tails.broad
                   /\ \A k \in Key : tails'.key[k] = IF k \in K THEN c ELSE tails.key[k]
  BY <1>2 DEF Accepts
<1> HIDE DEF new
<1>7. StoreTyped'
  BY <1>1, <1>4, <1>6 DEF StoreInv, StoreTyped
<1>8. Turns(next)'
  <2>1. \A m \in Calls : Used(m)' <=> (m = c \/ Used(m))
    BY <1>4 DEF Used, new
  <2>2. \A m \in Calls \ {c} :
          IF Used(m) THEN next[m] > 0 /\ next[m] <= revision.all
            /\ write'[m].floor <= source
          ELSE write'[m] = NoWrite
    BY <1>4, <1>5 DEF StoreInv, Turns
  <2>3. \A m \in Calls :
          IF Used(m)' THEN next[m] > 0 /\ next[m] <= revision'.all
            /\ write'[m].floor <= source'
          ELSE write'[m] = NoWrite
    <3>1. source \in Int /\ \A m \in Calls \ {c} : next[m] \in Int
            /\ write'[m].floor \in Int
      BY <1>2, <1>4, <1>5 DEF StoreInv, StoreTyped, Write
    <3> QED BY <1>1, <1>4, <1>5, <2>1, <2>2, <3>1 DEF new
  <2>4. \A m, w \in Calls : Used(m)' /\ Used(w)' /\ next[m] = next[w] => m = w
    BY <1>1, <1>5, <2>1, <2>2 DEF StoreInv, Turns
  <2> QED BY <1>5, <2>3, <2>4 DEF Turns
<1>9. \A m \in Calls : write[m].at = "accepted" => m # c /\ next[m] = turn[m]
        /\ next[m] <= revision.all
  BY <1>2, <1>5 DEF StoreInv, Turns, Used, NoWrite
<1>10. Ordered(next)'
  <2>1. ASSUME NEW m \in Calls, write'[m].at = "accepted", NEW k \in write'[m].scope
        PROVE  Covers(write', next, write'[m].deps, {w \in Calls : next[w] < next[m]}, k)
    <3>1. CASE m = c
      <4>1. k \in K /\ k \in Key /\ write'[m].deps = Dependencies(K)
        BY <2>1, <3>1, <1>4 DEF new
      <4> SUFFICES ASSUME NEW w \in Calls, next[w] < next[c], write'[w].at = "accepted",
                          k \in write'[w].scope
                   PROVE  \E d \in Dependencies(K) :
                             /\ d \in Calls /\ write'[d].at = "accepted"
                                  /\ k \in write'[d].scope
                             /\ next[w] <= next[d]
        BY <3>1, <4>1 DEF Covers
      <4>2. w # c /\ write'[w] = write[w]
        BY <1>1, <1>4, <1>5
      <4>3. PICK d \in {tails.broad, tails.key[k]} :
              /\ d \in Calls /\ write[d].at = "accepted" /\ k \in write[d].scope
              /\ turn[w] <= turn[d]
        BY <4>1, <4>2 DEF StoreInv, Ordered, Covers
      <4>4. d \in Dependencies(K)
        BY <1>2, <4>1, <4>3 DEF Dependencies
      <4> QED BY <1>4, <1>5, <1>9, <4>2, <4>3, <4>4
    <3>2. CASE m # c
      <4>1. write'[m] = write[m] /\ m \in Unsettled
        BY <2>1, <3>2, <1>4 DEF Unsettled
      <4>2. Covers(write, turn, write[m].deps, {w \in Calls : turn[w] < turn[m]}, k)
        BY <2>1, <4>1 DEF StoreInv, Ordered
      <4>3. \A w \in Calls : next[w] < next[m] => w # c /\ turn[w] < turn[m]
        BY <1>1, <1>5, <1>9, <3>2, <4>1 DEF Unsettled
      <4> QED BY <1>4, <1>5, <1>9, <4>1, <4>2, <4>3 DEF Covers
    <3> QED BY <3>1, <3>2
  <2>2. ASSUME NEW k \in Key
        PROVE  Covers(write', next, {tails'.broad, tails'.key[k]}, Calls, k)
    <3>1. CASE broad \/ k \in K
      <4>1. /\ c \in {tails'.broad, tails'.key[k]}
            /\ write'[c].at = "accepted" /\ k \in write'[c].scope
        BY <1>4, <1>6, <2>2, <3>1 DEF new
      <4>2. \A w \in Calls : write'[w].at = "accepted" => next[w] <= next[c]
        BY <1>1, <1>4, <1>5, <1>9
      <4> QED BY <4>1, <4>2 DEF Covers
    <3>2. CASE ~broad /\ k \notin K
      <4>1. tails'.broad = tails.broad /\ tails'.key[k] = tails.key[k]
              /\ k \notin write'[c].scope
        BY <1>4, <1>6, <3>2 DEF new
      <4>2. Covers(write, turn, {tails.broad, tails.key[k]}, Calls, k)
        BY DEF StoreInv, Ordered
      <4> QED BY <1>4, <1>9, <4>1, <4>2 DEF Covers
    <3> QED BY <3>1, <3>2
  <2> QED BY <2>1, <2>2 DEF Ordered, Unsettled
<1>11. Forward(next)'
  <2> SUFFICES ASSUME NEW w \in Calls, write'[w].at = "accepted", NEW k \in write'[w].scope,
                      NEW m \in Calls, write'[m].floor > 0, write'[w].version # None,
                      k \in write'[m].scope,
                      \/ write'[m].at = "applied"
                      \/ write'[m].at = "accepted" /\ next[m] <= next[w]
               PROVE  write'[w].version >= write'[m].floor
    BY DEF Forward, Unsettled, Accepted
  <2>1. CASE w = c /\ m = c
    BY <2>1, <1>4 DEF new
  <2>2. CASE w = c /\ m # c
    <3>1. write'[w].version = version /\ k \in K /\ write'[m] = write[m] /\ m \in Accepted
      BY <2>2, <1>4 DEF new, Accepted
    <3> QED BY <3>1 DEF Reflects
  <2>3. CASE w # c /\ m = c
    BY <1>1, <1>4, <1>5, <1>9, <2>3 DEF new
  <2>4. CASE w # c /\ m # c
    BY <1>4, <1>5, <2>4 DEF StoreInv, Forward, Unsettled, Accepted
  <2> QED BY <2>1, <2>2, <2>3, <2>4
<1>12. NoResurrection'
  <2>1. \A k \in Key : Effective(k)' = Effective(k)
    BY <1>2, <1>4 DEF Effective, Accepted, new, NoWrite
  <2>2. \A k \in Key : \A m \in Effective(k) : write'[m] = write[m]
    BY <1>2, <1>4 DEF Effective, Accepted, NoWrite
  <2> QED BY <2>1, <2>2 DEF StoreInv, NoResurrection
<1>13. Onward(turn, next)
  BY <1>1, <1>2, <1>4, <1>5 DEF Onward, Used, new, NoWrite
<1> QED BY <1>7, <1>8, <1>10, <1>11, <1>12, <1>13 DEF StoreInv

\* A mutation settles before the later ones of its keys.
LEMMA SettleKeeps ==
  ASSUME CacheConstants, NEW turn, StoreInv(turn), NEW c \in Calls,
         write[c].at = "accepted",
         Settled(write[c].deps), UNCHANGED <<source, revision>>, Cleaned(c),
         \/ /\ entry' = [k \in Key |-> IF k \in write[c].scope
                                      THEN [version |-> write[c].version, stale |-> FALSE]
                                      ELSE entry[k]]
            /\ write' = [write EXCEPT ![c].at = "applied", ![c].deps = {}]
         \/ write' = [write EXCEPT ![c].at = "void", ![c].deps = {}] /\ entry' = entry
  PROVE  StoreInv(turn)' /\ Onward(turn, turn)
<1>1. /\ write \in [Calls -> Write] /\ write[c] \in Write /\ turn \in [Calls -> Int]
      /\ tails \in [broad : Calls \cup {NoCall}, key : [Key -> Calls \cup {NoCall}]]
      /\ NoCall \notin Calls
  BY CacheConstants DEF StoreInv, StoreTyped, Turns, CacheConstants
<1>2. /\ write' \in [Calls -> Write] /\ write'[c].at \in {"applied", "void"}
      /\ write'[c].scope = write[c].scope /\ write'[c].version = write[c].version
      /\ write'[c].floor = write[c].floor
      /\ \A m \in Calls \ {c} : write'[m] = write[m]
  BY <1>1 DEF Write
<1> DEFINE stored == [version |-> write[c].version, stale |-> FALSE]
<1>13. \/ /\ write'[c].at = "applied"
          /\ entry' = [k \in Key |-> IF k \in write[c].scope THEN stored ELSE entry[k]]
       \/ write'[c].at = "void" /\ entry' = entry
  <2>1. c \in Calls /\ write[c] \in Write
    BY <1>1
  <2> QED BY <1>1, <2>1 DEF Write
<1> HIDE DEF stored
<1>14. stored.version = write[c].version /\ (stored.version = None => stored = Miss)
  BY DEF stored, Miss
<1>3. /\ tails' \in [broad : Calls \cup {NoCall}, key : [Key -> Calls \cup {NoCall}]]
      /\ tails'.broad = IF tails.broad = c THEN NoCall ELSE tails.broad
      /\ \A k \in Key : tails'.key[k] = IF tails.key[k] = c THEN NoCall ELSE tails.key[k]
  BY <1>1 DEF Cleaned
<1>4. \A k \in write[c].scope : \A w \in Calls :
        write[w].at = "accepted" /\ k \in write[w].scope => turn[c] <= turn[w]
  <2> SUFFICES ASSUME NEW k \in write[c].scope, NEW w \in Calls, write[w].at = "accepted",
                      k \in write[w].scope, turn[w] < turn[c]
               PROVE  FALSE
    BY <1>1
  <2>1. Covers(write, turn, write[c].deps, {m \in Calls : turn[m] < turn[c]}, k)
    BY DEF StoreInv, Ordered, Unsettled
  <2>2. \E d \in write[c].deps : d \in Calls /\ write[d].at = "accepted"
    BY <2>1 DEF Covers
  <2> QED BY <2>2 DEF Settled, Unsettled
<1>5. StoreTyped'
  <2>1. /\ entry' \in [Key -> Entry]
        /\ \A k \in Key : entry'[k].version = None => entry'[k] = Miss
    <3>1. entry \in [Key -> Entry]
            /\ \A k \in Key : entry[k].version = None => entry[k] = Miss
      BY DEF StoreInv, StoreTyped
    <3>2. stored \in Entry
      BY <1>1 DEF Entry, Write, stored
    <3>4. entry' \in [Key -> Entry]
      BY <1>13, <3>1, <3>2
    <3>5. \A k \in Key : entry'[k].version = None => entry'[k] = Miss
      BY <1>13, <1>14, <3>1
    <3> QED BY <3>4, <3>5
  <2> QED BY <1>2, <1>3, <2>1 DEF StoreInv, StoreTyped
<1>6. Turns(turn)'
  <2>1. \A m \in Calls : Used(m)' <=> Used(m)
    BY <1>2 DEF Used
  <2> QED BY <1>2, <2>1 DEF StoreInv, Turns, Used
<1>7. \A w \in Calls : write'[w].at = "accepted" => w # c /\ write'[w] = write[w]
        /\ w \in Unsettled
  BY <1>2 DEF Unsettled
<1>8. ASSUME NEW D, NEW E, D \ {c} \subseteq E, NEW S \in SUBSET Calls, NEW k \in Key,
             Covers(write, turn, D, S, k)
      PROVE  Covers(write', turn, E, S, k)
  <2> SUFFICES ASSUME NEW w \in S, write'[w].at = "accepted", k \in write'[w].scope
               PROVE  \E d \in E : /\ d \in Calls /\ write'[d].at = "accepted"
                                   /\ k \in write'[d].scope /\ turn[w] <= turn[d]
    BY DEF Covers
  <2>1. w # c /\ write[w].at = "accepted" /\ k \in write[w].scope
    BY <1>7 DEF Unsettled
  <2>2. PICK d \in D : /\ d \in Calls /\ write[d].at = "accepted"
                       /\ k \in write[d].scope /\ turn[w] <= turn[d]
    BY <1>8, <2>1 DEF Covers
  <2>3. d # c
    <3>1. SUFFICES ASSUME d = c PROVE FALSE
      OBVIOUS
    <3>2. turn[w] = turn[c]
      BY <1>1, <1>4, <2>1, <2>2, <3>1
    <3> QED BY <2>1, <2>2, <3>1, <3>2 DEF StoreInv, Turns, Used
  <2> QED BY <1>2, <1>8, <2>2, <2>3
<1>9. Ordered(turn)'
  <2>1. ASSUME NEW m \in Calls, write'[m].at = "accepted", NEW k \in write'[m].scope
        PROVE  Covers(write', turn, write'[m].deps, {w \in Calls : turn[w] < turn[m]}, k)
    <3>1. k \in Key /\ write'[m] = write[m] /\ m \in Unsettled
      BY <1>2, <1>7, <2>1 DEF Write
    <3>2. Covers(write, turn, write[m].deps, {w \in Calls : turn[w] < turn[m]}, k)
      BY <2>1, <3>1 DEF StoreInv, Ordered
    <3> QED BY <1>8, <3>1, <3>2
  <2>2. ASSUME NEW k \in Key
        PROVE  Covers(write', turn, {tails'.broad, tails'.key[k]}, Calls, k)
    <3>1. Covers(write, turn, {tails.broad, tails.key[k]}, Calls, k)
      BY DEF StoreInv, Ordered
    <3>2. {tails.broad, tails.key[k]} \ {c} \subseteq {tails'.broad, tails'.key[k]}
      BY <1>3
    <3> QED BY <1>8, <3>1, <3>2
  <2> QED BY <2>1, <2>2 DEF Ordered, Unsettled
<1>10. Forward(turn)'
  <2> SUFFICES ASSUME NEW w \in Calls, write'[w].at = "accepted", NEW k \in write'[w].scope,
                      NEW m \in Calls, write'[m].floor > 0, write'[w].version # None,
                      k \in write'[m].scope,
                      \/ write'[m].at = "applied"
                      \/ write'[m].at = "accepted" /\ turn[m] <= turn[w]
               PROVE  write'[w].version >= write'[m].floor
    BY DEF Forward, Unsettled, Accepted
  <2>1. CASE m = c
    BY <1>2, <1>4, <1>7, <2>1 DEF StoreInv, Forward, Unsettled, Accepted
  <2>2. CASE m # c
    BY <1>2, <1>7, <2>2 DEF StoreInv, Forward, Unsettled, Accepted
  <2> QED BY <2>1, <2>2
<1>11. NoResurrection'
  <2> SUFFICES ASSUME NEW k \in Key, entry'[k] # Miss, NEW m \in Calls, write'[m].floor > 0,
                      write'[m].at = "applied", k \in write'[m].scope
               PROVE  entry'[k].version >= write'[m].floor
    BY DEF NoResurrection, Effective, Accepted
  <2>1. CASE entry'[k] = entry[k] /\ m # c
    BY <1>2, <2>1 DEF StoreInv, NoResurrection, Effective, Accepted
  <2>2. CASE /\ entry'[k] = stored
             /\ k \in write[c].scope
    <3>1. write[c].version # None
      BY <1>14, <2>2
    <3>2. /\ c \in Unsettled /\ m \in Accepted /\ k \in write[m].scope
          /\ write[m].at = "applied" \/ (m \in Unsettled /\ turn[m] <= turn[c])
      BY <1>1, <1>2 DEF Unsettled, Accepted
    <3>3. write[c].version >= write[m].floor
      BY <2>2, <3>1, <3>2 DEF StoreInv, Forward
    <3>4. entry'[k].version = write[c].version
      BY <1>14, <2>2
    <3> QED BY <1>2, <3>3, <3>4
  <2>3. CASE write'[c].at = "void"
    BY <1>13, <2>1, <2>3
  <2>4. CASE write'[c].at # "void"
    <3>1. entry'[k] = IF k \in write[c].scope THEN stored ELSE entry[k]
      BY <1>13, <2>4
    <3>2. k \notin write[c].scope => m # c
      BY <1>2
    <3> QED BY <2>1, <2>2, <3>1, <3>2
  <2> QED BY <2>3, <2>4
<1>12. Onward(turn, turn)
  BY <1>1, <1>2 DEF Onward, Used, StoreInv, StoreTyped
<1> QED BY <1>5, <1>6, <1>9, <1>10, <1>11, <1>12 DEF StoreInv

\* The passing of time in the backend, and what does not touch the mutations.
LEMMA EntryKeeps ==
  ASSUME NEW turn, StoreInv(turn), NEW k \in Key,
         UNCHANGED <<source, revision, tails, write>>,
         \/ IsFresh(entry[k]) /\ entry' = [entry EXCEPT ![k].stale = TRUE]
         \/ entry' = [entry EXCEPT ![k] = Miss]
  PROVE  StoreInv(turn)'
<1>1. entry \in [Key -> Entry] /\ entry[k] \in Entry
  BY DEF StoreInv, StoreTyped
<1>2. /\ entry' \in [Key -> Entry]
      /\ \/ entry'[k] = Miss
         \/ entry'[k].version = entry[k].version /\ entry[k].version # None
      /\ \A j \in Key \ {k} : entry'[j] = entry[j]
  <2>1. CASE IsFresh(entry[k]) /\ entry' = [entry EXCEPT ![k].stale = TRUE]
    BY <1>1, <2>1 DEF Entry, IsFresh
  <2>2. CASE entry' = [entry EXCEPT ![k] = Miss]
    <3>1. Miss \in Entry
      BY DEF Miss, Entry, None
    <3> QED BY <1>1, <2>2, <3>1
  <2> QED BY <2>1, <2>2
<1>3. \A j \in Key : entry'[j] # Miss =>
        entry'[j].version = entry[j].version /\ entry[j] # Miss
  BY <1>2 DEF Miss
<1>4. StoreTyped'
  BY <1>2 DEF StoreInv, StoreTyped
<1>5. NoResurrection'
  BY <1>3 DEF StoreInv, NoResurrection, Effective, Accepted
<1> QED BY <1>4, <1>5 DEF StoreInv, Turns, Ordered, Forward, Unsettled, Accepted, Used

\* A mutation that is refused has only changed the revision.
LEMMA MarkKeeps ==
  ASSUME NEW turn, StoreInv(turn), NEW K \in SUBSET Key, Marked(K),
         UNCHANGED <<entry, tails, write>>, source' \in Nat, source <= source'
  PROVE  StoreInv(turn)' /\ Onward(turn, turn)
<1>1. /\ revision' \in [all : Nat, of : [Key -> Nat]] /\ revision'.all = revision.all + 1
      /\ revision.all \in Nat
      /\ \A k \in Key : /\ revision'.of[k] <= revision'.all
                        /\ revision.of[k] <= revision'.of[k]
  BY MarkedFacts DEF StoreInv, StoreTyped
<1>2. StoreTyped'
  BY <1>1 DEF StoreInv, StoreTyped
<1>3. Turns(turn)'
  <2>1. \A m \in Calls : write[m].floor \in Nat /\ turn[m] \in Int /\ (Used(m)' <=> Used(m))
    BY DEF StoreInv, StoreTyped, Turns, Write, Used
  <2>2. source \in Nat
    BY DEF StoreInv, StoreTyped
  <2> QED BY <1>1, <2>1, <2>2 DEF StoreInv, Turns
<1>4. Ordered(turn)' /\ Forward(turn)' /\ NoResurrection'
  BY DEF StoreInv, Ordered, Forward, NoResurrection, Effective, Unsettled, Accepted
<1>5. Onward(turn, turn)
  BY <1>1 DEF Onward, StoreInv, Turns, Used
<1> QED BY <1>2, <1>3, <1>4, <1>5 DEF StoreInv

\* Steps that leave the mutations alone.
LEMMA StoreStays ==
  ASSUME NEW turn, StoreInv(turn), UNCHANGED store
  PROVE  StoreInv(turn)' /\ Onward(turn, turn)
<1>1. UNCHANGED <<source, entry, revision, tails, write>>
  BY DEF store
<1>2. StoreInv(turn)'
  BY <1>1 DEF StoreInv, StoreTyped, Turns, Ordered, Forward, NoResurrection, Effective,
     Unsettled, Accepted, Used
<1>3. Onward(turn, turn)
  BY <1>1 DEF Onward, StoreInv, StoreTyped, Turns, Used
<1> QED BY <1>2, <1>3

--------------------------------------------------------------------------------
(* What a call knows.                                                      *)

\* The phases of a call: with a read under way, owning a flight, without a mutation.
Reading == {"get", "lookup", "recheck", "reread"}
Flying == {"recheck", "loading", "saving", "reread"}
Writeless == {"idle", "joined", "loading", "barrier", "settling", "flushing"} \cup Reading
Phase == Writeless \cup {"saving", "mutating", "done", "flushed"}

\* A call.
CallRecord ==
    [at : Phase, key : Key \cup {NoKey}, result : Int, fallback : BOOLEAN,
     deps : SUBSET (Calls \cup {NoCall, Shutdown}), answer : Entry, found : Entry,
     latest : Entry, seen : Int, base : Int, blind : BOOLEAN, loaded : Int,
     of : Calls \cup {NoCall}, before : SUBSET Calls, asked : SUBSET Calls,
     missed : SUBSET Calls]

\* A value read, or under way: the mutations it was asked after are reflected in it.
ReadSound(W, turn, d) ==
    d.at \in Reading =>
      /\ d.before \subseteq d.asked /\ d.asked \subseteq AcceptedIn(W)
      /\ d.answer = Unread => Covers(W, turn, d.deps, d.asked, d.key)
      /\ d.answer.version # None => Reflects(W, d.answer.version, d.asked, d.key)
      /\ d.answer.version = None => d.answer \in {Miss, Unread}

\* What a call found before it joined or started a flight: while the revision of the key
\* is the one it has seen, only mutations it has missed are not reflected in it.
FoundSound(W, rev, d) ==
    d.at \in {"recheck", "joined", "loading", "reread"} /\ d.found # Miss =>
      /\ d.found.version # None
      /\ Reflects(W, d.found.version, d.before, d.key)
      /\ d.at \in {"recheck", "joined"} \/ d.blind =>
           /\ d.seen <= rev.of[d.key]
           /\ d.seen = rev.of[d.key] =>
                 Reflects(W, d.found.version, AcceptedIn(W) \ d.missed, d.key)

\* The same of the flight's own last look, and of the value the loader returns.
LatestSound(W, rev, d) ==
    d.at = "loading" /\ d.latest # Miss =>
      /\ d.latest.version # None
      /\ Reflects(W, d.latest.version, d.before, d.key)
      /\ d.base = rev.of[d.key] =>
            Reflects(W, d.latest.version, AcceptedIn(W) \ d.missed, d.key)

\* A loader is called with a revision no later than the present one; what it has returned
\* reflects every mutation while the revision is the same.
LoadedSound(W, rev, d) ==
    /\ d.at = "loading" => d.base <= rev.of[d.key]
    /\ d.at \in {"loading", "saving"} /\ d.loaded # None =>
         /\ d.loaded >= 0 /\ Reflects(W, d.loaded, d.before, d.key)
         /\ d.at = "loading" /\ d.base = rev.of[d.key] =>
               Reflects(W, d.loaded, AcceptedIn(W), d.key)

\* Before it loads a call has neither a last look nor a value.
Untouched(d) ==
    d.at \in {"idle", "lookup", "recheck"} => d.latest = Miss /\ d.loaded = None /\ ~d.blind

\* A flush that waits for the backend waits for every mutation up to the revision it has
\* seen.
SettlingSound(W, rev, turn, d) ==
    d.at = "settling" =>
      /\ d.seen <= rev.all
      /\ \A m \in Calls : W[m].at = "accepted" => m \in d.deps \/ turn[m] > d.seen

\* What every call knows.
Knows(W, rev, turn, d) ==
    /\ d \in CallRecord
    /\ d.before \subseteq AcceptedIn(W)
    /\ d.at \in Reading \cup Flying \cup {"joined"} => d.key \in Key
    /\ d.at # "done" => d.result = None
    /\ Untouched(d)
    /\ d.at \in {"idle"} \cup Reading \cup Flying => d.of = NoCall
    /\ ReadSound(W, turn, d) /\ FoundSound(W, rev, d)
    /\ LatestSound(W, rev, d) /\ LoadedSound(W, rev, d) /\ SettlingSound(W, rev, turn, d)

\* An accepted mutation stays accepted.
LEMMA AcceptedStays ==
  ASSUME NEW turn, StoreInv(turn), NEW next, Onward(turn, next)
  PROVE  /\ AcceptedIn(write) \subseteq AcceptedIn(write')
         /\ \A m \in AcceptedIn(write) : Used(m)
         /\ \A m \in AcceptedIn(write') : Used(m) => m \in AcceptedIn(write)
BY DEF StoreInv, Turns, Onward, AcceptedIn, Used, NoWrite

\* A value goes on reflecting what it reflects.
LEMMA ReflectsStays ==
  ASSUME NEW turn, StoreInv(turn), NEW next, Onward(turn, next), NEW k, NEW v,
         NEW S, S \subseteq AcceptedIn(write), Reflects(write, v, S, k)
  PROVE  Reflects(write', v, S, k)
BY AcceptedStays DEF Onward, Reflects, AcceptedIn, Used

\* Whoever compares the revision notices what was accepted since.
LEMMA NewsIsNoticed ==
  ASSUME NEW turn, StoreInv(turn), NEW next, Onward(turn, next), NEW k \in Key, NEW v,
         NEW r \in Int, r <= revision.of[k], NEW X,
         r = revision.of[k] => Reflects(write, v, AcceptedIn(write) \ X, k)
  PROVE  /\ r <= revision'.of[k]
         /\ r = revision'.of[k] => Reflects(write', v, AcceptedIn(write') \ X, k)
<1>1. /\ revision.of[k] \in Nat /\ revision'.of[k] \in Nat
      /\ revision.of[k] <= revision'.of[k]
  BY DEF StoreInv, StoreTyped, Onward
<1>2. ASSUME r = revision'.of[k], NEW m \in AcceptedIn(write') \ X, k \in write'[m].scope,
             write'[m].at # "void"
      PROVE  v >= write'[m].floor
  <2>1. r = revision.of[k]
    BY <1>1, <1>2
  <2>2. m \in Calls
    BY DEF AcceptedIn
  <2>3. Used(m)
    <3>1. write'[m].at = "none" /\ ~Used(m) => write'[m] = NoWrite
      BY <2>2 DEF Onward, StoreInv, Turns
    <3>2. write'[m].at # "none"
      BY <1>2, <2>2, <3>1 DEF Onward, Used, AcceptedIn, NoWrite
    <3>3. ~Used(m) => revision'.of[k] > revision.of[k]
      BY <1>2, <2>2, <3>2 DEF Onward
    <3> QED BY <1>1, <1>2, <2>1, <3>3
  <2>4. m \in AcceptedIn(write) \ X
    BY <1>2, <2>3, AcceptedStays
  <2> QED BY <1>2, <2>1, <2>2, <2>3, <2>4 DEF Reflects, Onward, Used
<1> QED BY <1>1, <1>2 DEF Reflects

\* Whoever waits goes on waiting for the last one left.
LEMMA CoversStays ==
  ASSUME NEW turn, StoreInv(turn), NEW next, Onward(turn, next), NEW k \in Key, NEW D,
         NEW S, S \subseteq AcceptedIn(write), Covers(write, turn, D, S, k)
  PROVE  Covers(write', next, D, S, k)
<1> SUFFICES ASSUME NEW w \in S, write'[w].at = "accepted", k \in write'[w].scope
             PROVE  \E d \in D : /\ d \in Calls /\ write'[d].at = "accepted"
                                 /\ k \in write'[d].scope /\ next[w] <= next[d]
  BY DEF Covers
<1>1. w \in Calls /\ Used(w)
  BY AcceptedStays DEF AcceptedIn
<1>2. write[w].at = "accepted" /\ k \in write[w].scope /\ next[w] = turn[w]
  BY <1>1 DEF Onward
<1>3. PICK d \in D : /\ d \in Calls /\ write[d].at = "accepted" /\ k \in write[d].scope
                     /\ turn[w] <= turn[d]
  BY <1>2 DEF Covers
<1>4. Used(d) /\ turn \in [Calls -> Int]
  BY <1>3 DEF Used, StoreInv, Turns
<1>5. write'[d].at = "accepted"
  <2> SUFFICES ASSUME write'[d].at # "accepted" PROVE FALSE
    OBVIOUS
  <2>1. Settled(write[d].deps) /\ w # d
    BY <1>3, <1>4 DEF Onward
  <2>2. turn[w] < turn[d]
    BY <1>1, <1>3, <1>4, <2>1 DEF StoreInv, Turns
  <2>3. Covers(write, turn, write[d].deps, {m \in Calls : turn[m] < turn[d]}, k)
    BY <1>3 DEF StoreInv, Ordered, Unsettled
  <2>4. \E e \in write[d].deps : e \in Calls /\ write[e].at = "accepted"
    BY <1>1, <1>2, <2>2, <2>3 DEF Covers
  <2> QED BY <2>1, <2>4 DEF Settled, Unsettled
<1>6. write'[d].scope = write[d].scope /\ next[d] = turn[d]
  BY <1>3, <1>4 DEF Onward
<1> QED BY <1>2, <1>3, <1>5, <1>6

\* A call that does nothing loses nothing of what it knows.
LEMMA KnowsStays ==
  ASSUME NEW turn, StoreInv(turn), NEW next, Onward(turn, next), NEW d,
         Knows(write, revision, turn, d)
  PROVE  Knows(write', revision', next, d)
<1>1. /\ d \in CallRecord /\ d.before \subseteq AcceptedIn(write)
      /\ d.seen \in Int /\ d.base \in Int /\ d.at \in Phase
      /\ AcceptedIn(write) \subseteq AcceptedIn(write')
  BY AcceptedStays DEF Knows, CallRecord
<1>2. ReadSound(write', next, d)
  <2> SUFFICES ASSUME d.at \in Reading PROVE ReadSound(write', next, d)
    BY DEF ReadSound
  <2>1. d.key \in Key /\ d.asked \subseteq AcceptedIn(write)
    BY DEF Knows, ReadSound
  <2>2. d.answer = Unread => Covers(write', next, d.deps, d.asked, d.key)
    BY <2>1, CoversStays DEF Knows, ReadSound
  <2>3. d.answer.version # None => Reflects(write', d.answer.version, d.asked, d.key)
    BY <2>1, ReflectsStays DEF Knows, ReadSound
  <2> QED BY <1>1, <2>2, <2>3 DEF Knows, ReadSound
<1>3. FoundSound(write', revision', d)
  <2> SUFFICES ASSUME d.at \in {"recheck", "joined", "loading", "reread"}, d.found # Miss
               PROVE  FoundSound(write', revision', d)
    BY DEF FoundSound
  <2>1. d.key \in Key
    BY DEF Knows, Reading, Flying
  <2>2. Reflects(write', d.found.version, d.before, d.key)
    BY <1>1, ReflectsStays DEF Knows, FoundSound
  <2>3. d.at \in {"recheck", "joined"} \/ d.blind =>
          /\ d.seen <= revision'.of[d.key]
          /\ d.seen = revision'.of[d.key] =>
                Reflects(write', d.found.version, AcceptedIn(write') \ d.missed, d.key)
    BY <1>1, <2>1, NewsIsNoticed DEF Knows, FoundSound
  <2> QED BY <2>2, <2>3 DEF Knows, FoundSound
<1>4. LatestSound(write', revision', d) /\ LoadedSound(write', revision', d)
  <2>1. d.at \in {"loading", "saving"} => d.key \in Key
    BY DEF Knows, Flying
  <2>2. d.at = "loading" => d.base <= revision.of[d.key]
    BY DEF Knows, LoadedSound
  <2>3. AcceptedIn(write) \ {} = AcceptedIn(write)
          /\ AcceptedIn(write') \ {} = AcceptedIn(write')
    OBVIOUS
  <2>4. LatestSound(write', revision', d)
    <3> SUFFICES ASSUME d.at = "loading", d.latest # Miss
                 PROVE  LatestSound(write', revision', d)
      BY DEF LatestSound
    <3>1. Reflects(write', d.latest.version, d.before, d.key)
      BY <1>1, ReflectsStays DEF Knows, LatestSound
    <3>2. d.base = revision'.of[d.key] =>
            Reflects(write', d.latest.version, AcceptedIn(write') \ d.missed, d.key)
      BY <1>1, <2>1, <2>2, NewsIsNoticed DEF Knows, LatestSound
    <3> QED BY <3>1, <3>2 DEF Knows, LatestSound
  <2>5. d.at = "loading" => d.base <= revision'.of[d.key]
    BY <1>1, <2>1, <2>2 DEF Onward, StoreInv, StoreTyped
  <2>6. d.at \in {"loading", "saving"} /\ d.loaded # None =>
          Reflects(write', d.loaded, d.before, d.key)
    BY <1>1, ReflectsStays DEF Knows, LoadedSound
  <2>7. d.at = "loading" /\ d.loaded # None /\ d.base = revision'.of[d.key] =>
          Reflects(write', d.loaded, AcceptedIn(write'), d.key)
    <3> SUFFICES ASSUME d.at = "loading", d.loaded # None
                 PROVE  d.base = revision'.of[d.key] =>
                          Reflects(write', d.loaded, AcceptedIn(write') \ {}, d.key)
      BY <2>3
    <3>1. d.base = revision.of[d.key] =>
            Reflects(write, d.loaded, AcceptedIn(write) \ {}, d.key)
      BY <2>3 DEF Knows, LoadedSound
    <3> HIDE <2>3
    <3> QED BY <1>1, <2>1, <2>2, <3>1, NewsIsNoticed
  <2> QED BY <2>4, <2>5, <2>6, <2>7 DEF Knows, LoadedSound
<1>5. SettlingSound(write', revision', next, d)
  <2> SUFFICES ASSUME d.at = "settling" PROVE SettlingSound(write', revision', next, d)
    BY DEF SettlingSound
  <2>1. d.seen <= revision.all /\ revision.all \in Nat /\ revision'.all \in Nat
    BY DEF Knows, SettlingSound, StoreInv, StoreTyped, Onward
  <2>2. d.seen <= revision'.all
    BY <1>1, <2>1 DEF Onward
  <2>3. ASSUME NEW m \in Calls, write'[m].at = "accepted"
        PROVE  m \in d.deps \/ next[m] > d.seen
    <3>1. CASE Used(m)
      BY <2>3, <3>1 DEF Knows, SettlingSound, Onward, Used
    <3>2. CASE ~Used(m)
      BY <1>1, <2>1, <2>3, <3>2 DEF Onward
    <3> QED BY <3>1, <3>2
  <2> QED BY <2>2, <2>3 DEF SettlingSound
<1> QED BY <1>1, <1>2, <1>3, <1>4, <1>5 DEF Knows

--------------------------------------------------------------------------------
(* Flights and results.                                                    *)

\* The flight of a key is owned by a call on its way, to which those that joined hold on.
FlightInv ==
    /\ flight \in [Key -> Calls \cup {NoCall}]
    /\ \A k \in Key : flight[k] # NoCall =>
         call[flight[k]].at \in Flying /\ call[flight[k]].key = k
    /\ \A c \in Calls : /\ call[c].at \in Flying => flight[call[c].key] = c
                        /\ call[c].at = "joined" => /\ call[c].of \in Calls
                                                    /\ flight[call[c].key] = call[c].of

\* Sees, of the calls C.
SeesIn(C, c) == IF C[c].of # NoCall THEN C[c].before \cap C[C[c].of].before ELSE C[c].before

\* A result reflects what its call has to see; the owner of the flight it comes from has
\* begun.
ResultSound(W, C, c) ==
    C[c].result # None =>
      /\ Reflects(W, C[c].result, SeesIn(C, c), C[c].key)
      /\ C[c].of # NoCall => C[C[c].of].at # "idle"

\* Calls, their mutations and flights.
CallsInv(turn) ==
    /\ call \in [Calls -> CallRecord]
    /\ \A c \in Calls : /\ Knows(write, revision, turn, call[c])
                        /\ call[c].at \in Writeless => ~Used(c)
                        /\ ResultSound(write, call, c)
    /\ FlightInv

\* A call on its way does not start over.
Lasting(c) ==
    /\ call[c].at # "idle" => call'[c].before \subseteq call[c].before
    /\ call'[c].at # "idle"

\* The calls in P go on.
LEMMA CallsKeep ==
  ASSUME NEW turn, StoreInv(turn), NEW next, Onward(turn, next), CallsInv(turn),
         NEW P \in SUBSET Calls, call' \in [Calls -> CallRecord], FlightInv',
         \A c \in Calls \ P : /\ call'[c] = call[c]
                              /\ write'[c].at # "none" => Used(c),
         \A c \in P : /\ Knows(write', revision', next, call'[c])
                      /\ call'[c].at \in Writeless => write'[c].at = "none"
                      /\ ResultSound(write', call', c)
                      /\ Lasting(c)
  PROVE  CallsInv(next)'
<1>1. \A c \in Calls : Knows(write', revision', next, call'[c])
  BY KnowsStays DEF CallsInv
<1>2. \A c \in Calls : call'[c].at \in Writeless => write'[c].at = "none"
  BY DEF CallsInv, Used
<1>3. ASSUME NEW c \in Calls \ P, call[c].result # None PROVE ResultSound(write', call', c)
  <2>1. /\ call[c].before \subseteq AcceptedIn(write) /\ call[c].of \in Calls \cup {NoCall}
        /\ Reflects(write, call[c].result, SeesIn(call, c), call[c].key)
        /\ call[c].of # NoCall => call[call[c].of].at # "idle"
    BY <1>3 DEF CallsInv, Knows, ResultSound, CallRecord
  <2>2. SeesIn(call, c) \subseteq AcceptedIn(write)
    BY <2>1 DEF SeesIn
  <2>3. Reflects(write', call[c].result, SeesIn(call, c), call[c].key)
    BY <2>1, <2>2, ReflectsStays
  <2>4. SeesIn(call', c) \subseteq SeesIn(call, c)
    BY <2>1 DEF SeesIn, Lasting
  <2>5. call[c].of # NoCall => call'[call[c].of].at # "idle"
    BY <2>1 DEF Lasting
  <2> QED BY <2>3, <2>4, <2>5 DEF ResultSound, Reflects
<1>4. \A c \in Calls : ResultSound(write', call', c)
  BY <1>3 DEF ResultSound
<1> QED BY <1>1, <1>2, <1>4 DEF CallsInv, Used

\* No call moves.
LEMMA NothingGoesOn ==
  ASSUME NEW turn, StoreInv(turn), NEW next, Onward(turn, next), CallsInv(turn),
         UNCHANGED <<call, flight>>,
         \A c \in Calls : write'[c].at # "none" => Used(c)
  PROVE  CallsInv(next)'
<1>1. FlightInv' /\ call' \in [Calls -> CallRecord] /\ {} \in SUBSET Calls
  BY DEF CallsInv, FlightInv
<1> QED BY <1>1, CallsKeep

\* A single call goes on to d, without a result and on the same flight, if any.
LEMMA OneGoesOn ==
  ASSUME NEW turn, StoreInv(turn), NEW next, Onward(turn, next), CallsInv(turn),
         NEW c \in Calls, NEW d, call' = [call EXCEPT ![c] = d], UNCHANGED flight,
         \A m \in Calls \ {c} : write'[m].at # "none" => Used(m),
         Knows(write', revision', next, d), d.at \in Writeless => write'[c].at = "none",
         d.result = None \/ (d.of = NoCall /\ Reflects(write', d.result, d.before, d.key)),
         call[c].at # "idle" => d.before \subseteq call[c].before, d.at # "idle",
         \/ call[c].at \notin Flying \cup {"joined"} /\ d.at \notin Flying \cup {"joined"}
         \/ call[c].at \in Flying /\ d.at \in Flying /\ d.key = call[c].key
  PROVE  CallsInv(next)'
<1>1. /\ call \in [Calls -> CallRecord] /\ d \in CallRecord
      /\ call' \in [Calls -> CallRecord] /\ call'[c] = d
      /\ \A m \in Calls \ {c} : call'[m] = call[m]
  BY DEF CallsInv, Knows
<1>2. FlightInv'
  <2>1. "joined" \notin Flying
    BY DEF Flying
  <2>2. flight \in [Key -> Calls \cup {NoCall}]
    BY DEF CallsInv, FlightInv
  <2>3. ASSUME NEW k \in Key, flight[k] # NoCall
        PROVE  call'[flight[k]].at \in Flying /\ call'[flight[k]].key = k
    <3>1. /\ flight[k] \in Calls
          /\ call[flight[k]].at \in Flying /\ call[flight[k]].key = k
      BY <2>2, <2>3 DEF CallsInv, FlightInv
    <3> QED BY <1>1, <3>1
  <2>4. ASSUME NEW m \in Calls
        PROVE  /\ call'[m].at \in Flying => flight[call'[m].key] = m
               /\ call'[m].at = "joined" => /\ call'[m].of \in Calls
                                            /\ flight[call'[m].key] = call'[m].of
    <3>1. CASE m = c
      BY <1>1, <2>1, <3>1 DEF CallsInv, FlightInv
    <3>2. CASE m # c
      BY <1>1, <3>2 DEF CallsInv, FlightInv
    <3> QED BY <3>1, <3>2
  <2> QED BY <2>2, <2>3, <2>4 DEF FlightInv
<1>3. ResultSound(write', call', c)
  BY <1>1 DEF ResultSound, SeesIn
<1>4. Lasting(c)
  BY <1>1 DEF Lasting
<1>5. {c} \in SUBSET Calls
  OBVIOUS
<1> QED BY <1>1, <1>2, <1>3, <1>4, <1>5, CallsKeep

\* A flight lands: its passengers are done, with the flight's value or their own.
LEMMA FlightLands ==
  ASSUME NEW turn, StoreInv(turn), NEW next, Onward(turn, next), CallsInv(turn),
         NoCall \notin Calls, NEW c \in Calls, call[c].at \in Flying,
         flight' = [flight EXCEPT ![KeyOf(c)] = NoCall],
         call' \in [Calls -> CallRecord],
         \A d \in Calls \ Passengers(c) : call'[d] = call[d],
         \A d \in Calls : write'[d].at # "none" => Used(d) \/ d = c,
         \A d \in Passengers(c) :
           /\ call'[d].at = "done" /\ call'[d].before \subseteq call[d].before
           /\ call'[d].result # None =>
                /\ call'[d].key = call[d].key /\ call'[d].of = call[d].of
                /\ \/ Reflects(write', call'[d].result, call[c].before, call[c].key)
                   \/ Reflects(write', call'[d].result, call[d].before, call[d].key)
  PROVE  CallsInv(next)'
<1>1. /\ Passengers(c) \in SUBSET Calls /\ c \in Passengers(c)
      /\ \A d \in Passengers(c) : d = c \/ (call[d].at = "joined" /\ call[d].of = c)
      /\ \A d \in Calls \ Passengers(c) : ~(call[d].at = "joined" /\ call[d].of = c)
  BY DEF Passengers, At
<1>2. /\ flight \in [Key -> Calls \cup {NoCall}] /\ call[c].key \in Key
      /\ flight[call[c].key] = c /\ KeyOf(c) = call[c].key
  BY DEF CallsInv, FlightInv, Knows, KeyOf
<1>3. /\ flight' \in [Key -> Calls \cup {NoCall}] /\ flight'[call[c].key] = NoCall
      /\ \A k \in Key \ {call[c].key} : flight'[k] = flight[k]
  BY <1>2
<1>4. "joined" \notin Flying /\ "done" \notin Flying /\ "done" \notin Writeless
  BY DEF Flying, Writeless, Reading
<1>5. \A d \in Passengers(c) : call[d].key = call[c].key
  <2> SUFFICES ASSUME NEW d \in Calls, call[d].at = "joined", call[d].of = c
               PROVE  call[d].key = call[c].key
    BY <1>1
  <2>1. call[d].key \in Key /\ flight[call[d].key] = c
    BY DEF CallsInv, FlightInv, Knows
  <2> QED BY <2>1 DEF CallsInv, FlightInv
<1>6. FlightInv'
  <2>1. ASSUME NEW k \in Key, flight'[k] # NoCall
        PROVE  call'[flight'[k]].at \in Flying /\ call'[flight'[k]].key = k
    <3>1. /\ k # call[c].key /\ flight'[k] = flight[k] /\ flight[k] \in Calls
          /\ call[flight[k]].at \in Flying /\ call[flight[k]].key = k
      BY <1>2, <1>3, <2>1 DEF CallsInv, FlightInv
    <3>2. flight[k] \notin Passengers(c)
      BY <1>1, <1>4, <3>1
    <3> QED BY <3>1, <3>2
  <2>2. ASSUME NEW m \in Calls, call'[m].at \in Flying
        PROVE  flight'[call'[m].key] = m
    <3>1. m \notin Passengers(c) /\ call'[m] = call[m]
      BY <1>4, <2>2
    <3>2. flight[call[m].key] = m /\ call[m].key \in Key
      BY <2>2, <3>1 DEF CallsInv, FlightInv, Knows
    <3>3. call[m].key # call[c].key
      BY <1>1, <1>2, <3>1, <3>2
    <3> QED BY <1>3, <3>1, <3>2, <3>3
  <2>3. ASSUME NEW m \in Calls, call'[m].at = "joined"
        PROVE  call'[m].of \in Calls /\ flight'[call'[m].key] = call'[m].of
    <3>1. m \notin Passengers(c) /\ call'[m] = call[m]
      BY <2>3
    <3>2. call[m].of \in Calls /\ flight[call[m].key] = call[m].of /\ call[m].key \in Key
      BY <2>3, <3>1 DEF CallsInv, FlightInv, Knows
    <3>3. call[m].key # call[c].key
      BY <1>1, <1>2, <2>3, <3>1, <3>2
    <3> QED BY <1>3, <3>1, <3>2, <3>3
  <2> QED BY <1>3, <2>1, <2>2, <2>3 DEF FlightInv
<1>7. ASSUME NEW d \in Passengers(c)
      PROVE  /\ Knows(write', revision', next, call'[d]) /\ Lasting(d)
             /\ ResultSound(write', call', d) /\ call'[d].at \notin Writeless
  <2>1. d \in Calls /\ call'[d] \in CallRecord /\ call'[d].at = "done"
    BY <1>1
  <2>2. call[d].before \subseteq AcceptedIn(write')
    BY <2>1, AcceptedStays DEF CallsInv, Knows
  <2>3. Knows(write', revision', next, call'[d])
    BY <1>7, <2>1, <2>2 DEF Knows, Reading, Flying, ReadSound, FoundSound, LatestSound,
       LoadedSound, SettlingSound, Untouched
  <2>4. ASSUME call'[d].result # None PROVE ResultSound(write', call', d)
    <3>1. /\ call'[d].key = call[d].key /\ call'[d].of = call[d].of
          /\ call'[c].before \subseteq call[c].before
      BY <1>1, <1>7, <2>4
    <3>2. d # c => call'[d].of = c
      BY <1>1, <2>1, <3>1
    <3>3. call[d].of # NoCall => call[d].of \in Calls
      BY <2>1 DEF CallsInv, CallRecord
    <3>4. SeesIn(call', d) \subseteq call[d].before
            /\ SeesIn(call', d) \subseteq call[c].before
      BY <1>7, <3>1, <3>2 DEF SeesIn
    <3>5. Reflects(write', call'[d].result, SeesIn(call', d), call'[d].key)
      BY <1>5, <1>7, <2>4, <3>1, <3>4 DEF Reflects
    <3>6. call'[d].of # NoCall => call'[call'[d].of].at # "idle"
      <4>1. CASE d # c
        BY <1>1, <3>2, <4>1
      <4>2. CASE d = c
        BY <3>1, <4>2 DEF CallsInv, Knows
      <4> QED BY <4>1, <4>2
    <3> QED BY <3>5, <3>6 DEF ResultSound
  <2>5. Lasting(d)
    BY <1>7 DEF Lasting
  <2> QED BY <1>4, <2>1, <2>3, <2>4, <2>5 DEF ResultSound
<1>8. \A d \in Calls \ Passengers(c) : write'[d].at # "none" => Used(d)
  BY <1>1
<1> QED BY <1>1, <1>6, <1>7, <1>8, CallsKeep

--------------------------------------------------------------------------------
(* The forms a call takes.                                                 *)

\* Phases in which a call only remembers what was accepted before it.
LEMMA PlainKnows ==
  ASSUME NEW W, NEW rev, NEW turn, NEW d, d \in CallRecord,
         d.before \subseteq AcceptedIn(W),
         d.at \in {"mutating", "done", "flushed", "barrier", "flushing"},
         d.at # "done" => d.result = None
  PROVE  Knows(W, rev, turn, d)
BY DEF Knows, Reading, Flying, ReadSound, FoundSound, LatestSound, LoadedSound,
   SettlingSound, Untouched

\* Over keeps nothing of a call.
LEMMA OverForm ==
  ASSUME CacheConstants, NEW phase \in {"done", "flushed"}
  PROVE  /\ Over(phase) \in CallRecord /\ Over(phase).at = phase
              /\ Over(phase).result = None
         /\ Over(phase).before = {} /\ Over(phase).of = NoCall
<1>1. FreshCall \in CallRecord /\ FreshCall.result = None
  BY CacheConstants DEF CacheConstants, FreshCall, CallRecord, Phase, Writeless, Entry,
     Miss, Unread, None
<1> QED BY <1>1 DEF Over, FreshCall, CallRecord, Phase

\* A call's record with another key, result, owner and mutations to reflect.
LEMMA RecordWith ==
  ASSUME NEW d \in CallRecord, NEW key \in Key \cup {NoKey}, NEW result \in Int,
         NEW of \in Calls \cup {NoCall}, NEW before \in SUBSET Calls
  PROVE  [d EXCEPT !.key = key, !.result = result, !.of = of, !.before = before]
             \in CallRecord
BY DEF CallRecord

\* Done keeps what says how to judge the result.
LEMMA DoneForm ==
  ASSUME CacheConstants, NEW d \in CallRecord, NEW version \in Int
  PROVE  /\ Done(d, version) \in CallRecord /\ Done(d, version).at = "done"
         /\ Done(d, version).before \subseteq d.before /\ Done(d, version).result = version
         /\ version # None => /\ Done(d, version).key = d.key /\ Done(d, version).of = d.of
                             /\ Done(d, version).before = d.before
<1>1. Over("done") \in CallRecord /\ Over("done").result = None /\ Over("done").at = "done"
      /\ Over("done").before = {}
  BY OverForm
<1>2. CASE version = None
  BY <1>1, <1>2 DEF Done
<1>3. CASE version # None
  <2>1. Done(d, version) = [Over("done") EXCEPT !.key = d.key, !.result = version,
                                                !.of = d.of, !.before = d.before]
    BY <1>3 DEF Done
  <2> HIDE DEF Over
  <2>2. Over("done") \in CallRecord /\ d \in CallRecord
    BY <1>1
  <2>3. /\ Done(d, version).at = "done" /\ Done(d, version).before = d.before
        /\ Done(d, version).result = version /\ Done(d, version).key = d.key
        /\ Done(d, version).of = d.of
    BY <1>1, <2>1, <2>2 DEF CallRecord
  <2>4. /\ d.key \in Key \cup {NoKey} /\ d.of \in Calls \cup {NoCall}
        /\ d.before \in SUBSET Calls
    BY DEF CallRecord
  <2>5. Done(d, version) \in CallRecord
    <3>1. \A o \in CallRecord :
            [o EXCEPT !.key = d.key, !.result = version, !.of = d.of,
                      !.before = d.before] \in CallRecord
      BY <2>4, RecordWith
    <3> QED BY <2>1, <2>2, <3>1, Zenon
  <2> QED BY <1>3, <2>3, <2>5
<1> QED BY <1>2, <1>3

\* Done, whatever the call and its result.
LEMMA DoneIsDone ==
  ASSUME NEW d, NEW version
  PROVE  Done(d, version).at = "done" /\ Done(d, version).fallback = FALSE
<1>1. Over("done") = [FreshCall EXCEPT !.at = "done"]
  BY DEF Over
<1>2. Over("done").at = "done" /\ Over("done").fallback = FALSE
  BY <1>1 DEF FreshCall
<1>3. CASE version = None
  BY <1>2, <1>3 DEF Done
<1>4. CASE version # None
  <2>1. Done(d, version) = [Over("done") EXCEPT !.key = d.key, !.result = version,
                                                !.of = d.of, !.before = d.before]
    BY <1>4 DEF Done
  <2> QED BY <2>1 DEF Over, FreshCall
<1> QED BY <1>3, <1>4

\* The passengers of a failed flight end with a fallback or with nothing.
LEMMA CrashForm ==
  ASSUME CacheConstants, call \in [Calls -> CallRecord], NEW c \in Calls,
         NEW current \in Entry, Crashes(c, current), NEW d \in Calls
  PROVE  \/ d \notin Passengers(c) /\ call'[d] = call[d]
         \/ /\ d \in Passengers(c) /\ call'[d] \in CallRecord /\ call'[d].at = "done"
            /\ call'[d].before \subseteq call[d].before
            /\ \/ call'[d].result = None /\ call'[d].fallback = FALSE
               \/ /\ ~IsPending(KeyOf(c)) /\ FallbackOf(c, d, current) # Miss
                  /\ call'[d].result = FallbackOf(c, d, current).version
                  /\ FallbackOf(c, d, current).version # None =>
                       call'[d].key = call[d].key /\ call'[d].of = call[d].of
<1> DEFINE e == FallbackOf(c, d, current)
           r == Done(call[d], e.version)
<1>1. \/ d \notin Passengers(c) /\ call'[d] = call[d]
      \/ d \in Passengers(c) /\ call'[d] = Done(call[d], None)
      \/ /\ d \in Passengers(c) /\ ~IsPending(KeyOf(c)) /\ e # Miss
         /\ call'[d] = [r EXCEPT !.fallback = TRUE]
  BY DEF Crashes
<1>2. call[d] \in CallRecord /\ None \in Int
  BY DEF None
<1>3. CASE d \in Passengers(c) /\ call'[d] = Done(call[d], None)
  <2>1. Done(call[d], None).at = "done" /\ Done(call[d], None).fallback = FALSE
    BY DoneIsDone
  <2>2. /\ Done(call[d], None) \in CallRecord /\ Done(call[d], None).result = None
        /\ Done(call[d], None).before \subseteq call[d].before
    BY <1>2, DoneForm
  <2> QED BY <1>3, <2>1, <2>2
<1>4. CASE /\ d \in Passengers(c) /\ ~IsPending(KeyOf(c)) /\ e # Miss
           /\ call'[d] = [r EXCEPT !.fallback = TRUE]
  <2>1. e.version \in Int
    BY <1>2 DEF FallbackOf, CallRecord, Miss, Entry, None
  <2> HIDE DEF e
  <2>2. /\ r \in CallRecord /\ r.at = "done" /\ r.before \subseteq call[d].before
        /\ r.result = e.version
        /\ e.version # None => r.key = call[d].key /\ r.of = call[d].of
    BY <1>2, <2>1, DoneForm
  <2> HIDE DEF r
  <2>3. /\ call'[d].at = r.at /\ call'[d].before = r.before
        /\ call'[d].result = r.result /\ call'[d].key = r.key /\ call'[d].of = r.of
    BY <1>4, <2>2 DEF CallRecord
  <2>4. call'[d] \in CallRecord
    BY <1>4, <2>2 DEF CallRecord
  <2> QED BY <1>4, <2>2, <2>3, <2>4 DEF e
<1> QED BY <1>1, <1>3, <1>4

\* A call returns a value that reflects what was accepted before it.
LEMMA ReturnsKeep ==
  ASSUME CacheConstants, NEW turn, StoreInv(turn), NEW next, Onward(turn, next),
         CallsInv(turn),
         NEW c \in Calls, NEW version \in Int, Returns(c, version), UNCHANGED flight,
         \A m \in Calls : write'[m].at # "none" => Used(m),
         call[c].at \notin Flying \cup {"joined"},
         version # None => /\ call[c].of = NoCall
                           /\ Reflects(write', version, call[c].before, call[c].key)
  PROVE  CallsInv(next)'
<1>1. call[c] \in CallRecord /\ call[c].before \subseteq AcceptedIn(write')
  BY AcceptedStays DEF CallsInv, Knows
<1> DEFINE d == Done(call[c], version)
<1>2. /\ d \in CallRecord /\ d.at = "done" /\ d.before \subseteq call[c].before
      /\ d.result = version
      /\ version # None => d.key = call[c].key /\ d.of = call[c].of
           /\ d.before = call[c].before
  BY <1>1, DoneForm
<1>3. call' = [call EXCEPT ![c] = d]
  BY DEF Returns
<1> HIDE DEF d
<1>4. Knows(write', revision', next, d)
  BY <1>1, <1>2, PlainKnows
<1>5. d.at \notin Writeless /\ d.at \notin Flying \cup {"joined"} /\ d.at # "idle"
  BY <1>2 DEF Writeless, Reading, Flying
<1> QED BY <1>2, <1>3, <1>4, <1>5, OneGoesOn

\* The flight of c lands with a value that reflects what was accepted before c.
LEMMA LandsKeep ==
  ASSUME CacheConstants, NEW turn, StoreInv(turn), NEW next, Onward(turn, next),
         CallsInv(turn),
         NEW c \in Calls, call[c].at \in Flying, NEW version \in Int, Lands(c, version),
         \A m \in Calls : write'[m].at # "none" => Used(m),
         version # None => Reflects(write', version, call[c].before, call[c].key)
  PROVE  CallsInv(next)'
<1>1. NoCall \notin Calls /\ call \in [Calls -> CallRecord] /\ Passengers(c) \subseteq Calls
  BY CacheConstants DEF CacheConstants, CallsInv, Passengers
<1>2. \A d \in Calls : /\ Done(call[d], version) \in CallRecord
                       /\ Done(call[d], version).at = "done"
                       /\ Done(call[d], version).before \subseteq call[d].before
                       /\ Done(call[d], version).result = version
                       /\ version # None => /\ Done(call[d], version).key = call[d].key
                                           /\ Done(call[d], version).of = call[d].of
  BY <1>1, DoneForm
<1>3. /\ call' \in [Calls -> CallRecord]
      /\ \A d \in Passengers(c) : call'[d] = Done(call[d], version)
      /\ \A d \in Calls \ Passengers(c) : call'[d] = call[d]
  BY <1>1, <1>2 DEF Lands
<1>4. flight' = [flight EXCEPT ![KeyOf(c)] = NoCall]
  BY DEF Lands
<1>5. \A d \in Passengers(c) :
           /\ call'[d].at = "done" /\ call'[d].before \subseteq call[d].before
           /\ call'[d].result # None =>
                /\ call'[d].key = call[d].key /\ call'[d].of = call[d].of
                /\ Reflects(write', call'[d].result, call[c].before, call[c].key)
  BY <1>1, <1>2, <1>3
<1> QED BY <1>1, <1>3, <1>4, <1>5, FlightLands

\* The source has failed: passengers fall back on what the flight saw last, or on what
\* they found.
LEMMA CrashesKeep ==
  ASSUME CacheConstants, NEW turn, StoreInv(turn), CallsInv(turn), UNCHANGED store,
         NEW c \in Calls, call[c].at \in {"loading", "reread"}, NEW current \in Entry,
         Crashes(c, current),
         current # Miss => Reflects(write, current.version, call[c].before, call[c].key)
  PROVE  CallsInv(turn)'
<1>1. /\ NoCall \notin Calls /\ call \in [Calls -> CallRecord]
      /\ Passengers(c) \subseteq Calls
      /\ write' = write /\ Onward(turn, turn) /\ call[c].at \in Flying
  BY CacheConstants, StoreStays DEF CacheConstants, CallsInv, Passengers, store, Flying
<1>2. flight' = [flight EXCEPT ![KeyOf(c)] = NoCall] /\ call' = [d \in Calls |-> call'[d]]
  BY DEF Crashes
<1>3. ASSUME NEW d \in Passengers(c)
      PROVE  /\ call'[d] \in CallRecord /\ call'[d].at = "done"
             /\ call'[d].before \subseteq call[d].before
             /\ call'[d].result # None =>
                  /\ call'[d].key = call[d].key /\ call'[d].of = call[d].of
                  /\ \/ Reflects(write, call'[d].result, call[c].before, call[c].key)
                     \/ Reflects(write, call'[d].result, call[d].before, call[d].key)
  <2>1. PICK e : e = FallbackOf(c, d, current)
    OBVIOUS
  <2>2. \/ call'[d].result = None
        \/ /\ e # Miss /\ call'[d].result = e.version
           /\ e.version # None => call'[d].key = call[d].key /\ call'[d].of = call[d].of
    BY <1>1, <2>1, CrashForm
  <2>3. e # Miss => \/ Reflects(write, e.version, call[c].before, call[c].key)
                    \/ Reflects(write, e.version, call[d].before, call[d].key)
    <3>1. CASE e = current
      BY <3>1
    <3>2. CASE e = call[d].found /\ call[d].found # Miss
      <4>1. call[d].at \in {"recheck", "joined", "loading", "reread"}
        BY DEF Passengers, At
      <4> QED BY <1>1, <3>2, <4>1 DEF CallsInv, Knows, FoundSound
    <3> QED BY <2>1, <3>1, <3>2 DEF FallbackOf
  <2> QED BY <1>1, <2>2, <2>3, CrashForm
<1>4. \A d \in Calls \ Passengers(c) : call'[d] = call[d]
  BY <1>1, CrashForm
<1>5. call' \in [Calls -> CallRecord]
  <2>1. \A d \in Calls : call'[d] \in CallRecord
    BY <1>1, <1>3, <1>4
  <2> QED BY <1>2, <2>1
<1>6. \A d \in Calls : write'[d].at # "none" => Used(d) \/ d = c
  BY <1>1 DEF Used
<1> QED BY <1>1, <1>2, <1>3, <1>4, <1>5, <1>6, FlightLands

--------------------------------------------------------------------------------
(* The steps.                                                              *)

\* The mutations do not move.
LEMMA StoreRests ==
  ASSUME NEW turn, StoreInv(turn), UNCHANGED store
  PROVE  /\ StoreInv(turn)' /\ Onward(turn, turn)
         /\ write' = write /\ revision' = revision
         /\ \A m \in Calls : write'[m].at # "none" => Used(m)
BY StoreStays DEF store, Used

\* What is known of the mutations a call counts, and of the entries.
LEMMA AcceptedFacts ==
  ASSUME NEW turn, StoreInv(turn)
  PROVE  /\ AcceptedIn(write) = Accepted /\ Accepted \in SUBSET Calls
         /\ source \in Nat /\ revision.all \in Nat
         /\ \A k \in Key : entry[k] \in Entry /\ revision.of[k] \in Nat
         /\ \A m \in Accepted : /\ write[m].at \in {"accepted", "applied", "void"}
                                /\ write[m].floor <= source /\ write[m].floor \in Nat
BY DEF StoreInv, StoreTyped, Turns, AcceptedIn, Accepted, Used, NoWrite, Write

\* A call looks at the cache, behind the mutations accepted before.
LEMMA AsksForm ==
  ASSUME CacheConstants, NEW turn, StoreInv(turn), CallsInv(turn), NEW c \in Calls,
         NEW k \in Key, NEW phase \in Reading
  PROVE  LET d == Asks(c, k, phase) IN
         /\ d \in CallRecord /\ d.at = phase /\ d.key = k /\ d.asked = AcceptedIn(write)
         /\ d.answer = Unread /\ d.result = call[c].result /\ d.before = call[c].before
         /\ d.found = call[c].found /\ d.latest = call[c].latest
              /\ d.loaded = call[c].loaded
         /\ d.blind = call[c].blind /\ d.seen = call[c].seen /\ d.base = call[c].base
         /\ d.of = call[c].of /\ d.missed = call[c].missed
         /\ Covers(write, turn, d.deps, d.asked, k)
<1>1. call[c] \in CallRecord /\ Accepted = AcceptedIn(write) /\ Accepted \in SUBSET Calls
  BY AcceptedFacts DEF CallsInv
<1>2. tails \in [broad : Calls \cup {NoCall}, key : [Key -> Calls \cup {NoCall}]]
      /\ NoCall \notin Calls
  BY CacheConstants DEF StoreInv, StoreTyped, CacheConstants
<1>3. Dependencies({k}) = {tails.broad, tails.key[k]} \ {NoCall}
  BY DEF Dependencies
<1>4. Dependencies({k}) \in SUBSET (Calls \cup {NoCall, Shutdown})
  BY <1>2, <1>3
<1>5. Covers(write, turn, Dependencies({k}), AcceptedIn(write), k)
  <2>1. Covers(write, turn, {tails.broad, tails.key[k]}, Calls, k)
    BY DEF StoreInv, Ordered
  <2> QED BY <1>1, <1>2, <1>3, <2>1 DEF Covers
<1>6. Unread \in Entry /\ phase \in Phase
  BY DEF Unread, Entry, None, Phase, Writeless
<1> DEFINE d == Asks(c, k, phase)
<1>7. d = [call[c] EXCEPT !.at = phase, !.key = k, !.deps = Dependencies({k}),
                          !.answer = Unread, !.asked = Accepted]
  BY DEF Asks
<1> HIDE DEF d
<1>8. /\ d \in CallRecord /\ d.at = phase /\ d.key = k /\ d.asked = AcceptedIn(write)
      /\ d.answer = Unread /\ d.result = call[c].result /\ d.before = call[c].before
      /\ d.found = call[c].found /\ d.latest = call[c].latest /\ d.loaded = call[c].loaded
      /\ d.blind = call[c].blind /\ d.seen = call[c].seen /\ d.base = call[c].base
      /\ d.of = call[c].of /\ d.missed = call[c].missed /\ d.deps = Dependencies({k})
  BY <1>1, <1>4, <1>6, <1>7 DEF CallRecord
<1> QED BY <1>5, <1>8 DEF d

\* A get or a load starts.
LEMMA CallKeeps ==
  ASSUME CacheConstants, NEW turn, StoreInv(turn), CallsInv(turn), NEW c \in Calls,
         NEW k \in Key, NEW phase \in {"get", "lookup"}, Call(c, k, phase)
  PROVE  CallsInv(turn)'
<1>1. /\ UNCHANGED <<store, flight>> /\ call[c].at = "idle"
      /\ call' = [call EXCEPT ![c] = [Asks(c, k, phase) EXCEPT !.before = Accepted]]
  BY DEF Call, At
<1>2. /\ Accepted = AcceptedIn(write) /\ Accepted \in SUBSET Calls
  BY AcceptedFacts
<1>3. phase \in Reading /\ phase \notin Flying \cup {"joined", "idle", "done", "settling"}
  BY DEF Reading, Flying
<1>4. Knows(write, revision, turn, call[c])
  BY DEF CallsInv
<1> DEFINE a == Asks(c, k, phase)
           d == [a EXCEPT !.before = Accepted]
<1>5. /\ a \in CallRecord /\ a.at = phase /\ a.key = k /\ a.asked = AcceptedIn(write)
      /\ a.answer = Unread /\ a.result = call[c].result
      /\ a.latest = call[c].latest /\ a.loaded = call[c].loaded
      /\ a.blind = call[c].blind /\ a.of = call[c].of
      /\ Covers(write, turn, a.deps, a.asked, k)
  BY <1>3, AsksForm
<1> HIDE DEF a
<1>6. /\ d \in CallRecord /\ d.at = phase /\ d.key = k /\ d.asked = AcceptedIn(write)
      /\ d.answer = Unread /\ d.result = call[c].result /\ d.before = Accepted
      /\ d.latest = call[c].latest /\ d.loaded = call[c].loaded
      /\ d.blind = call[c].blind /\ d.of = call[c].of /\ d.deps = a.deps
  BY <1>2, <1>5 DEF CallRecord
<1>7. call' = [call EXCEPT ![c] = d]
  BY <1>1 DEF a
<1> HIDE DEF d
<1>8. ReadSound(write, turn, d)
  BY <1>2, <1>5, <1>6 DEF ReadSound, Unread
<1>9. Knows(write, revision, turn, d)
  BY <1>1, <1>2, <1>3, <1>4, <1>6, <1>8 DEF Knows, Reading, Flying, FoundSound, LatestSound,
     LoadedSound, SettlingSound, Untouched
<1>10. d.result = None /\ ~Used(c)
  BY <1>1, <1>4, <1>6 DEF Knows, CallsInv, Writeless
<1>11. /\ Onward(turn, turn) /\ write' = write /\ revision' = revision
       /\ \A m \in Calls : write'[m].at # "none" => Used(m)
  BY <1>1, StoreRests
<1>12. Knows(write', revision', turn, d) /\ write'[c].at = "none" /\ flight' = flight
       /\ call[c].at \notin Flying \cup {"joined"}
  BY <1>1, <1>9, <1>10, <1>11 DEF Used, Flying
<1> QED BY <1>1, <1>3, <1>6, <1>7, <1>10, <1>11, <1>12, OneGoesOn

\* The backend answers: nothing the call has waited for is missing.
LEMMA ReadKeeps ==
  ASSUME CacheConstants, NEW turn, StoreInv(turn), CallsInv(turn), NEW c \in Calls, Read(c)
  PROVE  CallsInv(turn)'
<1>1. /\ UNCHANGED <<store, flight>> /\ call[c].at \in Reading /\ call[c].answer = Unread
      /\ Settled(call[c].deps)
      /\ call' = [call EXCEPT ![c].answer = entry[call[c].key]]
  BY DEF Read, MayRead, KeyOf, Reading
<1>2. /\ Knows(write, revision, turn, call[c]) /\ call[c] \in CallRecord /\ ~Used(c)
  BY <1>1 DEF CallsInv, Writeless
<1> DEFINE e == entry[call[c].key]
           d == [call[c] EXCEPT !.answer = e]
<1>3. call[c].key \in Key /\ e \in Entry /\ (e.version = None => e = Miss)
  BY <1>1, <1>2 DEF Knows, StoreInv, StoreTyped
<1>4. Miss # Unread /\ Unread.version = None
  BY DEF Miss, Unread
<1>5. e.version # None => Reflects(write, e.version, call[c].asked, call[c].key)
  <2> SUFFICES ASSUME e.version # None, NEW m \in call[c].asked,
                      call[c].key \in write[m].scope, write[m].at # "void"
               PROVE  e.version >= write[m].floor
    BY DEF Reflects
  <2>1. m \in Accepted /\ write[m].at \in {"accepted", "applied", "void"}
    BY <1>1, <1>2, AcceptedFacts DEF Knows, ReadSound
  <2>2. write[m].at # "accepted"
    <3>1. SUFFICES ASSUME write[m].at = "accepted" PROVE FALSE
      OBVIOUS
    <3>2. Covers(write, turn, call[c].deps, call[c].asked, call[c].key)
      BY <1>1, <1>2 DEF Knows, ReadSound
    <3>3. \E x \in call[c].deps : x \in Calls /\ write[x].at = "accepted"
      BY <3>1, <3>2 DEF Covers
    <3> QED BY <1>1, <3>3 DEF Settled, Unsettled
  <2>3. m \in Effective(call[c].key) /\ e # Miss
    BY <2>1, <2>2 DEF Effective, Miss
  <2> QED BY <1>3, <2>3 DEF StoreInv, NoResurrection
<1> HIDE DEF e
<1>6. /\ d \in CallRecord /\ d.answer = e /\ d.at = call[c].at /\ d.key = call[c].key
      /\ d.asked = call[c].asked /\ d.result = call[c].result /\ d.before = call[c].before
      /\ d.found = call[c].found /\ d.latest = call[c].latest /\ d.loaded = call[c].loaded
      /\ d.blind = call[c].blind /\ d.seen = call[c].seen /\ d.base = call[c].base
      /\ d.of = call[c].of /\ d.missed = call[c].missed /\ d.deps = call[c].deps
  BY <1>2, <1>3 DEF CallRecord
<1>7. call' = [call EXCEPT ![c] = d]
  BY <1>1, <1>2 DEF e
<1> HIDE DEF d
<1>8. ReadSound(write, turn, d)
  BY <1>1, <1>2, <1>3, <1>4, <1>5, <1>6 DEF Knows, ReadSound
<1>9. FoundSound(write, revision, d)
  BY <1>2, <1>6 DEF Knows, FoundSound
<1>10. d.at \notin {"loading", "saving", "settling"}
  BY <1>1, <1>6 DEF Reading
<1>11. Knows(write, revision, turn, d)
  BY <1>2, <1>6, <1>8, <1>9, <1>10 DEF Knows, LatestSound, LoadedSound, SettlingSound,
     Untouched
<1>12. /\ Onward(turn, turn) /\ write' = write /\ revision' = revision
       /\ \A m \in Calls : write'[m].at # "none" => Used(m)
  BY <1>1, StoreRests
<1>13. /\ Knows(write', revision', turn, d) /\ write'[c].at = "none" /\ flight' = flight
       /\ d.result = None /\ d.at # "idle"
       /\ \/ call[c].at \notin Flying \cup {"joined"} /\ d.at \notin Flying \cup {"joined"}
          \/ call[c].at \in Flying /\ d.at \in Flying /\ d.key = call[c].key
  BY <1>1, <1>2, <1>6, <1>11, <1>12 DEF Used, Knows, Flying, Reading
<1> QED BY <1>6, <1>7, <1>12, <1>13, OneGoesOn

\* A get ends with a fresh entry or without a value.
LEMMA GetEnds ==
  ASSUME CacheConstants, NEW turn, StoreInv(turn), CallsInv(turn), NEW c \in Calls,
         GetReturns(c) \/ GetFails(c)
  PROVE  CallsInv(turn)'
<1>1. /\ UNCHANGED <<store, flight>> /\ call[c].at = "get"
      /\ \/ Returns(c, IF IsFresh(call[c].answer) THEN call[c].answer.version ELSE None)
         \/ Returns(c, None)
  BY DEF GetReturns, GetFails, Answered, At
<1>2. PICK version \in Int : /\ Returns(c, version)
                             /\ version = None \/ version = call[c].answer.version
  BY <1>1 DEF CallsInv, CallRecord, Entry, None
<1>3. Knows(write, revision, turn, call[c])
  BY DEF CallsInv
<1>4. /\ Onward(turn, turn) /\ write' = write /\ revision' = revision /\ flight' = flight
      /\ \A m \in Calls : write'[m].at # "none" => Used(m)
  BY <1>1, StoreRests
<1>5. version # None => /\ call[c].of = NoCall
                        /\ Reflects(write', version, call[c].before, call[c].key)
  BY <1>1, <1>2, <1>3, <1>4 DEF Knows, ReadSound, Reading, Reflects
<1>6. call[c].at \notin Flying \cup {"joined"}
  BY <1>1 DEF Flying
<1> QED BY <1>2, <1>4, <1>5, <1>6, ReturnsKeep

\* The loader is called.
LEMMA LoadingForm ==
  ASSUME StoreTyped, NEW d \in CallRecord, NEW k \in Key
  PROVE  LET e == Loading(d, k) IN
         /\ e \in CallRecord /\ e.at = "loading" /\ e.base = revision.of[k]
         /\ e.key = d.key /\ e.result = d.result /\ e.before = d.before /\ e.found = d.found
         /\ e.latest = d.latest /\ e.loaded = d.loaded /\ e.blind = d.blind
              /\ e.seen = d.seen
         /\ e.of = d.of /\ e.missed = d.missed
<1>1. Unread \in Entry /\ "loading" \in Phase /\ revision.of[k] \in Int
  BY DEF Unread, Entry, None, Phase, Writeless, StoreTyped
<1> DEFINE e == Loading(d, k)
<1>2. e = [d EXCEPT !.at = "loading", !.deps = {}, !.answer = Unread,
                    !.asked = {}, !.base = revision.of[k]]
  BY DEF Loading
<1> HIDE DEF e
<1>3. /\ e \in CallRecord /\ e.at = "loading" /\ e.base = revision.of[k]
      /\ e.key = d.key /\ e.result = d.result /\ e.before = d.before /\ e.found = d.found
      /\ e.latest = d.latest /\ e.loaded = d.loaded /\ e.blind = d.blind /\ e.seen = d.seen
      /\ e.of = d.of /\ e.missed = d.missed
  BY <1>1, <1>2 DEF CallRecord
<1> QED BY <1>3 DEF e

\* A call joins the flight of its key, or takes off with its own.
LEMMA TakeOff ==
  ASSUME CacheConstants, NEW turn, StoreInv(turn), CallsInv(turn), UNCHANGED store,
         NEW c \in Calls, call[c].at = "lookup", NEW d, call' = [call EXCEPT ![c] = d],
         d.key = call[c].key, Knows(write, revision, turn, d), d.result = None,
         d.before \subseteq call[c].before,
         \/ /\ d.at = "joined" /\ d.of = flight[d.key] /\ flight[d.key] # NoCall
            /\ UNCHANGED flight
         \/ /\ d.at \in {"recheck", "loading"} /\ flight[d.key] = NoCall
            /\ flight' = [flight EXCEPT ![d.key] = c]
  PROVE  CallsInv(turn)'
<1>1. /\ call \in [Calls -> CallRecord] /\ d \in CallRecord
      /\ call' \in [Calls -> CallRecord] /\ call'[c] = d
      /\ \A m \in Calls \ {c} : call'[m] = call[m]
  BY DEF CallsInv, Knows
<1>2. /\ Onward(turn, turn) /\ write' = write /\ revision' = revision
      /\ \A m \in Calls : write'[m].at # "none" => Used(m)
  BY StoreRests
<1>3. d.key \in Key /\ flight \in [Key -> Calls \cup {NoCall}] /\ NoCall \notin Calls
  BY CacheConstants DEF CallsInv, Knows, Reading, FlightInv, CacheConstants
<1>4. "joined" \notin Flying /\ {"recheck", "loading"} \subseteq Flying
        /\ "lookup" \notin Flying
  BY DEF Flying
<1>5. \A m \in Calls : call[m].at \in Flying \cup {"joined"} => call[m].key \in Key
  BY DEF CallsInv, Knows
<1>6. \A k \in Key : flight[k] # NoCall =>
        flight[k] # c /\ call[flight[k]].at \in Flying /\ call[flight[k]].key = k
  BY <1>4 DEF CallsInv, FlightInv
<1>7. FlightInv'
  <2>1. CASE d.at = "joined"
    <3>1. flight' = flight /\ d.of \in Calls /\ d.of = flight[d.key] /\ d.at \notin Flying
      BY <1>3, <1>4, <2>1
    <3>2. \A k \in Key : flight[k] # NoCall => flight[k] \in Calls
      BY <1>3
    <3> QED BY <1>1, <1>3, <1>6, <3>1, <3>2 DEF CallsInv, FlightInv
  <2>2. CASE d.at # "joined"
    <3>1. /\ d.at \in {"recheck", "loading"} /\ flight[d.key] = NoCall
          /\ flight' \in [Key -> Calls \cup {NoCall}] /\ flight'[d.key] = c
          /\ \A k \in Key \ {d.key} : flight'[k] = flight[k]
      BY <1>3, <2>2
    <3>2. ASSUME NEW k \in Key, flight'[k] # NoCall
          PROVE  call'[flight'[k]].at \in Flying /\ call'[flight'[k]].key = k
      <4>1. CASE k = d.key
        BY <1>1, <1>4, <3>1, <4>1
      <4>2. CASE k # d.key
        <5>1. flight'[k] = flight[k] /\ flight[k] \in Calls /\ flight[k] # c
          BY <1>3, <1>6, <3>1, <3>2, <4>2
        <5> QED BY <1>1, <1>6, <3>2, <5>1
      <4> QED BY <4>1, <4>2
    <3>3. ASSUME NEW m \in Calls
          PROVE  /\ call'[m].at \in Flying => flight'[call'[m].key] = m
                 /\ call'[m].at = "joined" => /\ call'[m].of \in Calls
                                              /\ flight'[call'[m].key] = call'[m].of
      <4>1. CASE m = c
        BY <1>1, <1>4, <2>2, <3>1, <4>1
      <4>2. CASE m # c
        <5>1. call[m].at \in Flying \cup {"joined"} => call[m].key # d.key
          BY <1>3, <1>5, <3>1 DEF CallsInv, FlightInv
        <5> QED BY <1>1, <1>4, <1>5, <3>1, <4>2, <5>1 DEF CallsInv, FlightInv
      <4> QED BY <4>1, <4>2
    <3> QED BY <3>1, <3>2, <3>3 DEF FlightInv
  <2> QED BY <2>1, <2>2
<1>8. write'[c].at = "none"
  BY <1>2 DEF CallsInv, Writeless, Reading, Used
<1>9. Lasting(c)
  BY <1>1 DEF Lasting
<1>10. Knows(write', revision', turn, d) /\ ResultSound(write', call', c)
  BY <1>1, <1>2 DEF ResultSound
<1>11. \A m \in Calls \ {c} : call'[m] = call[m] /\ (write'[m].at # "none" => Used(m))
  BY <1>1, <1>2
<1>12. \A m \in {c} : /\ Knows(write', revision', turn, call'[m])
                      /\ call'[m].at \in Writeless => write'[m].at = "none"
                      /\ ResultSound(write', call', m)
                      /\ Lasting(m)
  BY <1>1, <1>8, <1>9, <1>10
<1>13. {c} \in SUBSET Calls
  OBVIOUS
<1> QED BY <1>1, <1>2, <1>7, <1>11, <1>12, <1>13, CallsKeep

\* A call that has found nothing fresh departs.
LEMMA DepartsKeeps ==
  ASSUME CacheConstants, NEW turn, StoreInv(turn), CallsInv(turn), UNCHANGED store,
         NEW c \in Calls, call[c].at = "lookup", NEW found \in Entry, NEW again \in BOOLEAN,
         Departs(c, found, again),
         found # Miss => /\ found.version # None
                         /\ Reflects(write, found.version, call[c].asked, call[c].key)
  PROVE  CallsInv(turn)'
<1> DEFINE k == call[c].key
           a == Asks(c, k, "recheck")
           d == [a EXCEPT !.found = found, !.seen = revision.of[k], !.missed = Missed(c)]
           j == [d EXCEPT !.at = "joined", !.deps = {}, !.asked = {}, !.of = flight[k]]
           l == Loading(d, k)
<1>1. /\ Knows(write, revision, turn, call[c]) /\ call[c] \in CallRecord /\ k \in Key
      /\ Accepted = AcceptedIn(write) /\ Accepted \in SUBSET Calls
      /\ revision.of[k] \in Nat
  BY AcceptedFacts DEF CallsInv, Knows, Reading
<1>2. /\ call[c].result = None /\ call[c].of = NoCall /\ call[c].latest = Miss
      /\ call[c].loaded = None /\ ~call[c].blind
      /\ call[c].before \subseteq call[c].asked /\ call[c].asked \subseteq AcceptedIn(write)
      /\ call[c].before \subseteq AcceptedIn(write)
  BY <1>1 DEF Knows, Untouched, ReadSound, Reading
<1>3. "recheck" \in Reading /\ "recheck" \in Phase /\ "joined" \in Phase
  BY DEF Reading, Phase, Writeless
<1>4. /\ a \in CallRecord /\ a.at = "recheck" /\ a.key = k /\ a.asked = AcceptedIn(write)
      /\ a.answer = Unread /\ a.result = None /\ a.before = call[c].before
      /\ a.latest = Miss /\ a.loaded = None /\ ~a.blind /\ a.of = NoCall
      /\ Covers(write, turn, a.deps, a.asked, k)
  BY <1>1, <1>2, <1>3, AsksForm
<1>5. Missed(c) \in SUBSET Calls /\ AcceptedIn(write) \ Missed(c) \subseteq call[c].asked
  BY <1>1 DEF Missed
<1> HIDE DEF a
<1> DEFINE s == revision.of[k]
           missed == Missed(c)
<1>13. s \in Int /\ missed \in SUBSET Calls /\ a \in CallRecord
       /\ d = [a EXCEPT !.found = found, !.seen = s, !.missed = missed]
  BY <1>1, <1>4, <1>5
<1> HIDE DEF s, missed, d
<1>14. /\ d \in CallRecord /\ d.at = a.at /\ d.key = a.key /\ d.asked = a.asked
      /\ d.answer = a.answer /\ d.result = a.result /\ d.before = a.before
      /\ d.latest = a.latest /\ d.loaded = a.loaded /\ d.blind = a.blind /\ d.of = a.of
      /\ d.found = found /\ d.seen = s /\ d.missed = missed /\ d.deps = a.deps
  BY <1>13 DEF CallRecord
<1>6. /\ d \in CallRecord /\ d.at = "recheck" /\ d.key = k /\ d.asked = AcceptedIn(write)
      /\ d.answer = Unread /\ d.result = None /\ d.before = call[c].before
      /\ d.latest = Miss /\ d.loaded = None /\ d.blind = a.blind /\ d.of = NoCall
      /\ d.found = found /\ d.seen = revision.of[k] /\ d.missed = Missed(c)
      /\ d.deps = a.deps
  BY <1>4, <1>14 DEF s, missed
<1> USE DEF d
<1>7. \A x \in {d, j, l} : x.found = found /\ x.before = call[c].before /\ x.key = k
                           /\ x.seen = revision.of[k] /\ x.missed = Missed(c)
                           => FoundSound(write, revision, x)
  BY <1>1, <1>2, <1>5 DEF FoundSound, Reflects
<1>8. flight \in [Key -> Calls \cup {NoCall}]
  BY DEF CallsInv, FlightInv
<1>9. /\ KeyOf(c) = k
      /\ \/ flight[k] # NoCall /\ call' = [call EXCEPT ![c] = j] /\ UNCHANGED flight
         \/ /\ flight[k] = NoCall /\ flight' = [flight EXCEPT ![k] = c]
            /\ \/ call' = [call EXCEPT ![c] = d]
               \/ call' = [call EXCEPT ![c] = l]
  BY DEF Departs, KeyOf, a
<1> HIDE DEF d
<1>10. CASE call' = [call EXCEPT ![c] = d] /\ flight[k] = NoCall
              /\ flight' = [flight EXCEPT ![k] = c]
  <2>1. ReadSound(write, turn, d)
    BY <1>2, <1>4, <1>6 DEF ReadSound, Unread
  <2>2. Knows(write, revision, turn, d)
    BY <1>1, <1>2, <1>4, <1>6, <1>7, <2>1 DEF Knows, LatestSound, LoadedSound,
       SettlingSound, Untouched
  <2> QED BY <1>6, <1>10, <2>2, TakeOff
<1>11. CASE call' = [call EXCEPT ![c] = j] /\ flight[k] # NoCall /\ UNCHANGED flight
  <2>1. flight[k] \in Calls
    BY <1>1, <1>8, <1>11
  <2>2. /\ j \in CallRecord /\ j.at = "joined" /\ j.key = k /\ j.result = None
        /\ j.before = call[c].before /\ j.of = flight[k]
        /\ j.found = found /\ j.seen = revision.of[k] /\ j.missed = Missed(c)
    BY <1>3, <1>6, <2>1 DEF CallRecord
  <2> HIDE DEF j
  <2>3. FoundSound(write, revision, j)
    BY <1>7, <2>2
  <2>4. Knows(write, revision, turn, j)
    BY <1>1, <1>2, <2>2, <2>3 DEF Knows, ReadSound, LatestSound, LoadedSound, SettlingSound,
       Untouched, Reading, Flying
  <2> QED BY <1>11, <2>2, <2>4, TakeOff
<1>12. CASE call' = [call EXCEPT ![c] = l] /\ flight[k] = NoCall
              /\ flight' = [flight EXCEPT ![k] = c]
  <2>1. /\ l \in CallRecord /\ l.at = "loading" /\ l.key = k /\ l.result = None
        /\ l.before = call[c].before /\ l.of = NoCall /\ l.base = revision.of[k]
        /\ l.latest = Miss /\ l.loaded = None /\ ~l.blind
        /\ l.found = found /\ l.seen = revision.of[k] /\ l.missed = Missed(c)
    BY <1>1, <1>4, <1>6, LoadingForm DEF StoreInv
  <2> HIDE DEF l
  <2>2. FoundSound(write, revision, l)
    BY <1>7, <2>1
  <2>3. Knows(write, revision, turn, l)
    BY <1>1, <1>2, <2>1, <2>2 DEF Knows, ReadSound, LatestSound, LoadedSound, SettlingSound,
       Untouched, Reading
  <2> QED BY <1>12, <2>1, <2>3, TakeOff
<1> HIDE DEF j, l
<1> QED BY <1>9, <1>10, <1>11, <1>12

\* The first look of a load ends.
LEMMA LookupKeeps ==
  ASSUME CacheConstants, NEW turn, StoreInv(turn), CallsInv(turn), NEW c \in Calls,
         LookupReturns(c) \/ LookupFails(c)
  PROVE  CallsInv(turn)'
<1>1. UNCHANGED store /\ call[c].at = "lookup"
  BY DEF LookupReturns, LookupFails, Answered, At
<1>2. Knows(write, revision, turn, call[c]) /\ call[c].answer \in Entry
  BY DEF CallsInv, CallRecord
<1>3. CASE LookupReturns(c) /\ IsFresh(call[c].answer)
  <2>1. Returns(c, call[c].answer.version) /\ UNCHANGED flight
    BY <1>3 DEF LookupReturns
  <2>2. /\ Onward(turn, turn) /\ write' = write
        /\ \A m \in Calls : write'[m].at # "none" => Used(m)
    BY <1>1, StoreRests
  <2>3. /\ call[c].of = NoCall /\ call[c].answer.version \in Int
        /\ call[c].at \notin Flying \cup {"joined"}
    BY <1>1, <1>2 DEF Knows, Reading, Entry, Flying
  <2>4. call[c].answer.version # None =>
          Reflects(write', call[c].answer.version, call[c].before, call[c].key)
    BY <1>1, <1>2, <2>2 DEF Knows, ReadSound, Reading, Reflects
  <2> QED BY <2>1, <2>2, <2>3, <2>4, ReturnsKeep
<1>4. CASE LookupReturns(c) /\ ~IsFresh(call[c].answer)
  <2>1. Departs(c, call[c].answer, TRUE) /\ call[c].answer # Unread
    BY <1>4 DEF LookupReturns, Answered
  <2>2. call[c].answer # Miss =>
          /\ call[c].answer.version # None
          /\ Reflects(write, call[c].answer.version, call[c].asked, call[c].key)
    BY <1>1, <1>2, <2>1 DEF Knows, ReadSound, Reading
  <2> QED BY <1>1, <1>2, <2>1, <2>2, DepartsKeeps
<1>5. CASE LookupFails(c)
  <2>1. PICK timedOut \in BOOLEAN : Departs(c, Miss, ~timedOut)
    BY <1>5 DEF LookupFails
  <2>2. Miss \in Entry /\ (~timedOut) \in BOOLEAN
    BY DEF Miss, Entry, None
  <2> QED BY <1>1, <2>1, <2>2, DepartsKeeps
<1> QED BY <1>3, <1>4, <1>5

\* A flying call goes on flying, without a result.
LEMMA FliesOn ==
  ASSUME NEW turn, StoreInv(turn), CallsInv(turn), UNCHANGED <<store, flight>>,
         NEW c \in Calls, call[c].at \in Flying \ {"saving"}, NEW d,
         call' = [call EXCEPT ![c] = d], Knows(write, revision, turn, d), d.at \in Flying,
         d.key = call[c].key, d.before = call[c].before
  PROVE  CallsInv(turn)'
<1>1. /\ Onward(turn, turn) /\ write' = write /\ revision' = revision
      /\ \A m \in Calls : write'[m].at # "none" => Used(m)
  BY StoreRests
<1>2. call[c].at \in Writeless
  BY DEF Flying, Writeless, Reading
<1>3. Knows(write', revision', turn, d) /\ write'[c].at = "none" /\ flight' = flight
  BY <1>1, <1>2 DEF CallsInv, Used
<1>4. d.result = None /\ d.at # "idle"
  BY DEF Knows, Flying
<1> QED BY <1>1, <1>3, <1>4, OneGoesOn

\* The look of a flight before it loads ends.
LEMMA RecheckKeeps ==
  ASSUME CacheConstants, NEW turn, StoreInv(turn), CallsInv(turn), NEW c \in Calls,
         RecheckReturns(c) \/ RecheckFails(c)
  PROVE  CallsInv(turn)'
<1>1. UNCHANGED store /\ call[c].at = "recheck" /\ StoreTyped
  BY DEF RecheckReturns, RecheckFails, Answered, At, StoreInv
<1>2. /\ Knows(write, revision, turn, call[c]) /\ call[c] \in CallRecord
      /\ call[c].answer \in Entry /\ call[c].key \in Key /\ KeyOf(c) = call[c].key
      /\ call[c].seen <= revision.of[call[c].key] \/ call[c].found = Miss
      /\ Accepted = AcceptedIn(write) /\ Accepted \in SUBSET Calls
      /\ revision.of[call[c].key] \in Nat
  BY <1>1, AcceptedFacts DEF CallsInv, CallRecord, Knows, Reading, FoundSound, KeyOf
<1>3. /\ call[c].result = None /\ call[c].of = NoCall /\ call[c].latest = Miss
      /\ call[c].loaded = None /\ call[c].blind = FALSE
      /\ call[c].before \subseteq call[c].asked /\ call[c].asked \subseteq AcceptedIn(write)
      /\ call[c].before \subseteq AcceptedIn(write)
  BY <1>1, <1>2 DEF Knows, Untouched, ReadSound, Reading, CallRecord
<1>4. CASE RecheckReturns(c) /\ IsFresh(call[c].answer)
  <2>1. Lands(c, call[c].answer.version)
    BY <1>4 DEF RecheckReturns
  <2>2. /\ Onward(turn, turn) /\ write' = write
        /\ \A m \in Calls : write'[m].at # "none" => Used(m)
    BY <1>1, StoreRests
  <2>3. call[c].at \in Flying /\ call[c].answer.version \in Int
    BY <1>1, <1>2 DEF Flying, Entry
  <2>4. call[c].answer.version # None =>
          Reflects(write', call[c].answer.version, call[c].before, call[c].key)
    BY <1>1, <1>2, <1>3, <2>2 DEF Knows, ReadSound, Reading, Reflects
  <2> QED BY <2>1, <2>2, <2>3, <2>4, LandsKeep
<1> DEFINE l == Loading(call[c], call[c].key)
<1>5. /\ l \in CallRecord /\ l.at = "loading" /\ l.base = revision.of[call[c].key]
      /\ l.key = call[c].key /\ l.result = None /\ l.before = call[c].before
      /\ l.found = call[c].found /\ l.latest = Miss /\ l.loaded = None
      /\ l.blind = FALSE /\ l.seen = call[c].seen /\ l.of = NoCall
           /\ l.missed = call[c].missed
  BY <1>1, <1>2, <1>3, LoadingForm
<1>6. /\ call[c].found # Miss =>
           /\ call[c].found.version # None
           /\ Reflects(write, call[c].found.version, call[c].before, call[c].key)
           /\ call[c].seen <= revision.of[call[c].key]
           /\ call[c].seen = revision.of[call[c].key] =>
                 Reflects(write, call[c].found.version, AcceptedIn(write) \ call[c].missed,
                          call[c].key)
  BY <1>1, <1>2 DEF Knows, FoundSound
<1> HIDE DEF l
<1>7. CASE RecheckReturns(c) /\ ~IsFresh(call[c].answer)
  <2> DEFINE missed == Missed(c)
             answer == call[c].answer
             d == [l EXCEPT !.latest = answer, !.missed = missed]
  <2>1. call' = [call EXCEPT ![c] = d] /\ UNCHANGED flight
    BY <1>2, <1>7 DEF RecheckReturns, l
  <2>2. /\ missed \in SUBSET Calls /\ AcceptedIn(write) \ missed \subseteq call[c].asked
        /\ answer \in Entry /\ answer # Unread
    BY <1>2, <1>7 DEF Missed, RecheckReturns, Answered
  <2>3. answer # Miss =>
          answer.version # None
            /\ Reflects(write, answer.version, call[c].asked, call[c].key)
    BY <1>1, <1>2, <2>2 DEF Knows, ReadSound, Reading
  <2> HIDE DEF missed, answer
  <2>4. /\ d \in CallRecord /\ d.at = l.at /\ d.base = l.base /\ d.key = l.key
        /\ d.result = l.result /\ d.before = l.before /\ d.found = l.found
        /\ d.loaded = l.loaded /\ d.blind = l.blind /\ d.seen = l.seen /\ d.of = l.of
        /\ d.latest = answer /\ d.missed = missed
    BY <1>5, <2>2 DEF CallRecord
  <2> HIDE DEF d
  <2>5. FoundSound(write, revision, d)
    BY <1>5, <1>6, <2>4 DEF FoundSound
  <2>6. LatestSound(write, revision, d)
    BY <1>3, <1>5, <2>2, <2>3, <2>4 DEF LatestSound, Reflects
  <2>7. LoadedSound(write, revision, d)
    BY <1>2, <1>5, <2>4 DEF LoadedSound
  <2>8. Knows(write, revision, turn, d)
    BY <1>2, <1>3, <1>5, <2>4, <2>5, <2>6, <2>7 DEF Knows, ReadSound, SettlingSound,
       Untouched, Reading
  <2>9. call[c].at \in Flying \ {"saving"} /\ d.at \in Flying
    BY <1>1, <1>5, <2>4 DEF Flying
  <2> QED BY <1>1, <1>5, <2>1, <2>4, <2>8, <2>9, FliesOn
<1>8. CASE RecheckFails(c)
  <2> DEFINE d == [l EXCEPT !.blind = TRUE]
  <2>1. call' = [call EXCEPT ![c] = d] /\ UNCHANGED flight
    BY <1>2, <1>8 DEF RecheckFails, l
  <2>2. /\ d \in CallRecord /\ d.at = l.at /\ d.base = l.base /\ d.key = l.key
        /\ d.result = l.result /\ d.before = l.before /\ d.found = l.found
        /\ d.loaded = l.loaded /\ d.blind = TRUE /\ d.seen = l.seen /\ d.of = l.of
        /\ d.latest = l.latest /\ d.missed = l.missed
    BY <1>5 DEF CallRecord
  <2> HIDE DEF d
  <2>3. FoundSound(write, revision, d)
    BY <1>5, <1>6, <2>2 DEF FoundSound
  <2>4. LatestSound(write, revision, d) /\ LoadedSound(write, revision, d)
    BY <1>2, <1>5, <2>2 DEF LoadedSound, LatestSound
  <2>5. Knows(write, revision, turn, d)
    BY <1>2, <1>3, <1>5, <2>2, <2>3, <2>4 DEF Knows, ReadSound, SettlingSound, Untouched,
       Reading
  <2>6. call[c].at \in Flying \ {"saving"} /\ d.at \in Flying
    BY <1>1, <1>5, <2>2 DEF Flying
  <2> QED BY <1>1, <1>5, <2>1, <2>2, <2>5, <2>6, FliesOn
<1> QED BY <1>4, <1>7, <1>8

\* The loader sees the source as it is.
LEMMA LoaderReadsKeeps ==
  ASSUME CacheConstants, NEW turn, StoreInv(turn), CallsInv(turn), NEW c \in Calls,
         LoaderReads(c)
  PROVE  CallsInv(turn)'
<1>1. /\ UNCHANGED <<store, flight>> /\ call[c].at = "loading"
      /\ call' = [call EXCEPT ![c].loaded = source]
  BY DEF LoaderReads, At
<1>2. /\ Knows(write, revision, turn, call[c]) /\ call[c] \in CallRecord /\ source \in Nat
  BY AcceptedFacts DEF CallsInv
<1> DEFINE d == [call[c] EXCEPT !.loaded = source]
<1>3. /\ d \in CallRecord /\ d.loaded = source /\ d.at = call[c].at /\ d.key = call[c].key
      /\ d.result = call[c].result /\ d.before = call[c].before
      /\ d.found = call[c].found /\ d.latest = call[c].latest
      /\ d.blind = call[c].blind /\ d.seen = call[c].seen /\ d.base = call[c].base
      /\ d.of = call[c].of /\ d.missed = call[c].missed
  BY <1>2 DEF CallRecord
<1>4. call' = [call EXCEPT ![c] = d]
  BY <1>1, <1>2
<1> HIDE DEF d
<1>5. \A S \in SUBSET AcceptedIn(write) : Reflects(write, source, S, d.key)
  BY AcceptedFacts DEF Reflects
<1>6. LoadedSound(write, revision, d)
  BY <1>1, <1>2, <1>3, <1>5 DEF Knows, LoadedSound
<1>7. FoundSound(write, revision, d) /\ LatestSound(write, revision, d)
  BY <1>2, <1>3 DEF Knows, FoundSound, LatestSound
<1>8. Knows(write, revision, turn, d)
  BY <1>1, <1>2, <1>3, <1>6, <1>7 DEF Knows, ReadSound, SettlingSound, Untouched, Reading
<1>9. call[c].at \in Flying \ {"saving"} /\ d.at \in Flying
  BY <1>1, <1>3 DEF Flying
<1> QED BY <1>1, <1>3, <1>4, <1>8, <1>9, FliesOn

\* The value of a load is stored, unless the key was mutated since its loader was called.
LEMMA LoaderReturnsKeeps ==
  ASSUME CacheConstants, NEW turn, StoreInv(turn), CallsInv(turn), NEW c \in Calls,
         LoaderReturns(c)
  PROVE  \E next : StoreInv(next)' /\ CallsInv(next)' /\ Onward(turn, next)
<1> DEFINE k == call[c].key
           loaded == call[c].loaded
<1>1. /\ call[c].at = "loading" /\ loaded # None /\ KeyOf(c) = k
      /\ source' = source /\ entry' = entry
  BY DEF LoaderReturns, At, KeyOf
<1>2. /\ Knows(write, revision, turn, call[c]) /\ call[c] \in CallRecord /\ loaded \in Int
      /\ k \in Key /\ ~Used(c) /\ Accepted = AcceptedIn(write) /\ source \in Nat
      /\ call[c].at \in Flying
  BY <1>1, AcceptedFacts DEF CallsInv, Knows, CallRecord, Flying, Writeless
<1>3. /\ call[c].before \subseteq AcceptedIn(write) /\ call[c].of = NoCall
      /\ call[c].result = None /\ loaded >= 0
      /\ Reflects(write, loaded, call[c].before, k)
      /\ call[c].base = revision.of[k] => Reflects(write, loaded, AcceptedIn(write), k)
  BY <1>1, <1>2 DEF Knows, LoadedSound
<1> HIDE DEF loaded
<1>4. ASSUME StoreInv(turn)', Onward(turn, turn), Lands(c, loaded), write' = write
      PROVE  CallsInv(turn)'
  <2>1. Reflects(write', loaded, call[c].before, k)
    BY <1>3, <1>4
  <2>2. \A m \in Calls : write'[m].at # "none" => Used(m)
    BY <1>4 DEF Used
  <2> QED BY <1>2, <1>4, <2>1, <2>2, LandsKeep
<1>5. CASE /\ Unchanged(c) /\ Marked({KeyOf(c)})
           /\ Accepts(c, {KeyOf(c)}, FALSE, call[c].loaded, 0)
           /\ call' = [call EXCEPT ![c].at = "saving"] /\ UNCHANGED flight
  <2>1. Reflects(write, loaded, Accepted, k)
    BY <1>1, <1>2, <1>3, <1>5 DEF Unchanged
  <2>2. PICK next : next = [turn EXCEPT ![c] = revision.all + 1]
    OBVIOUS
  <2>3. Marked({k}) /\ Accepts(c, {k}, FALSE, loaded, 0)
    BY <1>1, <1>5 DEF loaded
  <2>12. /\ \A j \in {k} : Reflects(write, loaded, Accepted, j)
         /\ {k} \in SUBSET Key /\ 0 \in Nat /\ FALSE \in BOOLEAN
         /\ source' \in Nat /\ source <= source' /\ 0 <= source' /\ loaded \in Int
    BY <1>1, <1>2, <2>1 DEF loaded
  <2>13. PICK broad \in BOOLEAN : broad = FALSE /\ Accepts(c, {k}, broad, loaded, 0)
    BY <2>3, Zenon
  <2>14. PICK K \in SUBSET Key, version \in Int, floor \in Nat :
           /\ K = {k} /\ version = loaded /\ floor = 0
           /\ Marked(K) /\ Accepts(c, K, broad, version, floor)
    BY <2>3, <2>12, <2>13, Zenon
  <2>15. /\ ~Used(c) /\ (broad => K = Key) /\ entry' = entry
         /\ source' \in Nat /\ source <= source' /\ floor <= source'
         /\ floor > 0 => version = None \/ version >= floor
         /\ version # None => \A j \in K : Reflects(write, version, Accepted, j)
    BY <1>1, <1>2, <2>12, <2>13, <2>14
  <2>4. StoreInv(next)' /\ Onward(turn, next)
    BY <2>2, <2>13, <2>14, <2>15, AcceptKeeps, Zenon
  <2> DEFINE d == [call[c] EXCEPT !.at = "saving"]
  <2>5. /\ d \in CallRecord /\ d.at = "saving" /\ d.key = k
        /\ d.result = None /\ d.before = call[c].before /\ d.loaded = loaded
             /\ d.of = NoCall
    BY <1>2, <1>3 DEF CallRecord, Phase, loaded
  <2>6. call' = [call EXCEPT ![c] = d]
    BY <1>2, <1>5
  <2> HIDE DEF d
  <2>7. Knows(write', revision', next, call[c])
    BY <1>2, <2>4, KnowsStays
  <2>8. Knows(write', revision', next, d)
    BY <1>1, <1>2, <2>5, <2>7 DEF Knows, ReadSound, FoundSound, LatestSound, LoadedSound,
       SettlingSound, Untouched, Reading, loaded
  <2>9. \A m \in Calls \ {c} : write'[m].at # "none" => Used(m)
    BY <1>5 DEF Accepts, Used, StoreInv, StoreTyped
  <2>10. d.at \notin Writeless /\ d.at \in Flying /\ d.at # "idle" /\ d.key = call[c].key
    BY <2>5 DEF Writeless, Reading, Flying
  <2>11. CallsInv(next)'
    BY <1>2, <1>5, <2>4, <2>5, <2>6, <2>8, <2>9, <2>10, OneGoesOn
  <2> QED BY <2>4, <2>11
<1>6. CASE Marked({KeyOf(c)}) /\ Lands(c, call[c].loaded) /\ UNCHANGED <<tails, write>>
  <2>1. Marked({k}) /\ {k} \in SUBSET Key /\ source' \in Nat /\ source <= source'
    BY <1>1, <1>2, <1>6
  <2>2. StoreInv(turn)' /\ Onward(turn, turn)
    BY <1>1, <1>6, <2>1, MarkKeeps
  <2>3. CallsInv(turn)'
    BY <1>4, <1>6, <2>2 DEF loaded
  <2> QED BY <2>2, <2>3
<1>7. CASE Lands(c, call[c].loaded) /\ UNCHANGED <<revision, tails, write>>
  <2>1. StoreInv(turn)' /\ Onward(turn, turn)
    BY <1>1, <1>7, StoreStays DEF store
  <2>2. CallsInv(turn)'
    BY <1>4, <1>7, <2>1 DEF loaded
  <2> QED BY <2>1, <2>2
<1> QED BY <1>5, <1>6, <1>7 DEF LoaderReturns

\* The source fails: passengers fall back, or the flight looks at the cache again.
LEMMA LoaderFailsKeeps ==
  ASSUME CacheConstants, NEW turn, StoreInv(turn), CallsInv(turn), NEW c \in Calls,
         LoaderFails(c)
  PROVE  CallsInv(turn)'
<1>1. call[c].at = "loading" /\ UNCHANGED store
  BY DEF LoaderFails, At
<1>2. /\ Knows(write, revision, turn, call[c]) /\ call[c] \in CallRecord
           /\ call[c].key \in Key
      /\ call[c].latest \in Entry /\ KeyOf(c) = call[c].key
  BY <1>1 DEF CallsInv, Knows, CallRecord, Flying, KeyOf
<1>3. CASE Unchanged(c)
  <2>1. Crashes(c, call[c].latest)
    BY <1>3 DEF LoaderFails
  <2>2. call[c].latest # Miss =>
          Reflects(write, call[c].latest.version, call[c].before, call[c].key)
    BY <1>1, <1>2 DEF Knows, LatestSound
  <2> QED BY <1>1, <1>2, <2>1, <2>2, CrashesKeep
<1>4. CASE ~Unchanged(c)
  <2> DEFINE d == Asks(c, call[c].key, "reread")
  <2>1. call' = [call EXCEPT ![c] = d] /\ UNCHANGED flight
    BY <1>2, <1>4 DEF LoaderFails
  <2>2. "reread" \in Reading
    BY DEF Reading
  <2>3. /\ d \in CallRecord /\ d.at = "reread" /\ d.key = call[c].key
        /\ d.asked = AcceptedIn(write) /\ d.answer = Unread /\ d.result = call[c].result
        /\ d.before = call[c].before /\ d.found = call[c].found
        /\ d.blind = call[c].blind /\ d.seen = call[c].seen
        /\ d.of = call[c].of /\ d.missed = call[c].missed
        /\ Covers(write, turn, d.deps, d.asked, call[c].key)
    BY <1>2, <2>2, AsksForm
  <2> HIDE DEF d
  <2>4. ReadSound(write, turn, d)
    BY <1>2, <2>3 DEF Knows, ReadSound, Unread
  <2>5. FoundSound(write, revision, d)
    BY <1>1, <1>2, <2>3 DEF Knows, FoundSound
  <2>6. Knows(write, revision, turn, d)
    BY <1>1, <1>2, <2>2, <2>3, <2>4, <2>5 DEF Knows, LatestSound, LoadedSound,
       SettlingSound, Untouched, Reading, Flying
  <2>7. call[c].at \in Flying \ {"saving"} /\ d.at \in Flying
    BY <1>1, <2>3 DEF Flying
  <2> QED BY <1>1, <2>1, <2>3, <2>6, <2>7, FliesOn
<1> QED BY <1>3, <1>4

\* The look of a flight after its loader has failed ends.
LEMMA RereadKeeps ==
  ASSUME CacheConstants, NEW turn, StoreInv(turn), CallsInv(turn), NEW c \in Calls,
         RereadReturns(c) \/ RereadFails(c)
  PROVE  CallsInv(turn)'
<1>1. call[c].at = "reread" /\ UNCHANGED store
  BY DEF RereadReturns, RereadFails, Answered, At
<1>2. Knows(write, revision, turn, call[c]) /\ call[c].answer \in Entry
  BY DEF CallsInv, CallRecord
<1>3. PICK current \in Entry :
        /\ Crashes(c, current)
        /\ current # Miss => current = call[c].answer /\ call[c].answer # Unread
  <2>1. Miss \in Entry
    BY DEF Miss, Entry, None
  <2> QED BY <1>2, <2>1 DEF RereadReturns, RereadFails, Answered
<1>4. current # Miss => Reflects(write, current.version, call[c].before, call[c].key)
  BY <1>1, <1>2, <1>3 DEF Knows, ReadSound, Reading, Reflects
<1> QED BY <1>1, <1>3, <1>4, CrashesKeep

\* A mutation changes the source and is accepted, or refused for want of room.
LEMMA MutateKeeps ==
  ASSUME CacheConstants, NEW turn, StoreInv(turn), CallsInv(turn), NEW c \in Calls,
         NEW K \in SUBSET Key, NEW broad \in BOOLEAN, broad => K = Key, NEW version,
         version = None \/ version = source + 1, Mutate(c, K, broad, version)
  PROVE  \E next : StoreInv(next)' /\ CallsInv(next)' /\ Onward(turn, next)
<1>1. /\ call[c].at = "idle" /\ source' = source + 1 /\ Marked(K) /\ entry' = entry
      /\ flight' = flight
  BY DEF Mutate, At
<1>2. /\ Knows(write, revision, turn, call[c]) /\ call[c] \in CallRecord
      /\ ~Used(c) /\ source \in Nat /\ version \in Int /\ source' \in Nat
      /\ source <= source' /\ "idle" \notin Flying \cup {"joined"}
  BY <1>1, AcceptedFacts DEF CallsInv, Flying, Writeless, None
<1>3. CASE /\ Accepts(c, K, broad, version, source')
           /\ call' = [call EXCEPT ![c].at = "mutating"]
  <2>1. PICK next : next = [turn EXCEPT ![c] = revision.all + 1]
    OBVIOUS
  <2>12. PICK floor \in Nat : floor = source'
    BY <1>2
  <2>2. Accepts(c, K, broad, version, floor) /\ floor <= source'
    BY <1>2, <1>3, <2>12
  <2>3. /\ floor > 0 => version = None \/ version >= floor
        /\ version # None => \A k \in K : Reflects(write, version, Accepted, k)
    BY <1>1, <1>2, <2>12, AcceptedFacts DEF Reflects
  <2>4. StoreInv(next)' /\ Onward(turn, next)
    BY <1>1, <1>2, <2>1, <2>2, <2>3, AcceptKeeps, Zenon
  <2> DEFINE d == [call[c] EXCEPT !.at = "mutating"]
  <2>5. /\ d \in CallRecord /\ d.at = "mutating" /\ d.before = call[c].before
        /\ d.result = call[c].result
    BY <1>2 DEF CallRecord, Phase
  <2>6. call' = [call EXCEPT ![c] = d]
    BY <1>2, <1>3
  <2> HIDE DEF d
  <2>7. d.result = None /\ d.before \subseteq AcceptedIn(write')
    BY <1>1, <1>2, <2>4, <2>5, AcceptedStays DEF Knows
  <2>8. Knows(write', revision', next, d)
    BY <2>5, <2>7, PlainKnows
  <2>9. \A m \in Calls \ {c} : write'[m].at # "none" => Used(m)
    BY <1>3 DEF Accepts, Used, StoreInv, StoreTyped
  <2>10. d.at \notin Writeless /\ d.at \notin Flying \cup {"joined"} /\ d.at # "idle"
         /\ call[c].at \notin Flying \cup {"joined"}
    BY <1>1, <2>5 DEF Writeless, Reading, Flying
  <2>11. CallsInv(next)'
    BY <1>1, <2>4, <2>6, <2>7, <2>8, <2>9, <2>10, OneGoesOn
  <2> QED BY <2>4, <2>11
<1>4. CASE Returns(c, None) /\ UNCHANGED <<tails, write>>
  <2>1. StoreInv(turn)' /\ Onward(turn, turn)
    BY <1>1, <1>2, <1>4, MarkKeeps
  <2>2. \A m \in Calls : write'[m].at # "none" => Used(m)
    BY <1>4 DEF Used
  <2>3. None \in Int /\ call[c].at \notin Flying \cup {"joined"}
    BY <1>1, <1>2 DEF None
  <2>4. CallsInv(turn)'
    BY <1>1, <1>4, <2>1, <2>2, <2>3, ReturnsKeep
  <2> QED BY <2>1, <2>4
<1> QED BY <1>3, <1>4 DEF Mutate

\* The call behind a mutation goes on, when it settles or when the timer fires.
LEMMA ResumesKeeps ==
  ASSUME CacheConstants, NEW turn, StoreInv(turn), CallsInv(turn), Onward(turn, turn),
         NEW c \in Calls, Resumes(c), \A m \in Calls : write'[m].at # "none" => Used(m)
  PROVE  CallsInv(turn)'
<1>1. Knows(write, revision, turn, call[c]) /\ call[c].loaded \in Int /\ None \in Int
  BY DEF CallsInv, CallRecord, None
<1>2. CASE At(c, "mutating")
  <2>1. Returns(c, None) /\ UNCHANGED flight /\ call[c].at \notin Flying \cup {"joined"}
    BY <1>2 DEF Resumes, At, Flying
  <2> QED BY <1>1, <2>1, ReturnsKeep
<1>3. CASE At(c, "saving")
  <2>1. Lands(c, call[c].loaded) /\ call[c].at \in Flying
    BY <1>3 DEF Resumes, At, Flying
  <2>2. call[c].loaded # None =>
          /\ call[c].before \subseteq AcceptedIn(write)
          /\ Reflects(write, call[c].loaded, call[c].before, call[c].key)
    BY <1>1, <1>3 DEF At, Knows, LoadedSound
  <2>3. call[c].loaded # None =>
          Reflects(write', call[c].loaded, call[c].before, call[c].key)
    BY <2>2, ReflectsStays
  <2> QED BY <1>1, <2>1, <2>3, LandsKeep
<1>4. CASE ~At(c, "mutating") /\ ~At(c, "saving")
  <2>1. UNCHANGED <<call, flight>>
    BY <1>4 DEF Resumes
  <2> QED BY <2>1, NothingGoesOn
<1> QED BY <1>2, <1>3, <1>4

\* A mutation settles.
LEMMA SettlesKeeps ==
  ASSUME CacheConstants, NEW turn, StoreInv(turn), CallsInv(turn), NEW c \in Calls,
         Settles(c)
  PROVE  StoreInv(turn)' /\ CallsInv(turn)' /\ Onward(turn, turn)
<1>1. StoreInv(turn)' /\ Onward(turn, turn)
  BY SettleKeeps DEF Settles
<1>2. /\ Resumes(c) /\ write[c].at = "accepted"
      /\ \A m \in Calls \ {c} : write'[m] = write[m]
  BY DEF Settles, StoreInv, StoreTyped
<1>3. \A m \in Calls : write'[m].at # "none" => Used(m)
  BY <1>2 DEF Used
<1> QED BY <1>1, <1>2, <1>3, ResumesKeeps

\* The timer of a mutation fires.
LEMMA TimesOutKeeps ==
  ASSUME CacheConstants, NEW turn, StoreInv(turn), CallsInv(turn), NEW c \in Calls,
         TimesOut(c)
  PROVE  CallsInv(turn)'
<1>1. UNCHANGED store /\ Resumes(c)
  BY DEF TimesOut
<1> QED BY <1>1, StoreRests, ResumesKeeps

\* A call of flush goes through its phases.
LEMMA FlushCallKeeps ==
  ASSUME CacheConstants, NEW turn, StoreInv(turn), CallsInv(turn), NEW c \in Calls,
         flush.work \in Calls \cup {NoCall, Shutdown},
         FlushCalled(c) \/ BarrierPassed(c) \/ BackendSettled(c)
  PROVE  CallsInv(turn)'
<1>1. /\ UNCHANGED <<store, flight>> /\ call[c].at \in {"idle", "barrier", "settling"}
  BY DEF FlushCalled, BarrierPassed, BackendSettled, At
<1>2. /\ Onward(turn, turn) /\ write' = write /\ revision' = revision
      /\ \A m \in Calls : write'[m].at # "none" => Used(m)
  BY <1>1, StoreRests
<1>3. /\ Knows(write, revision, turn, call[c]) /\ call[c] \in CallRecord /\ ~Used(c)
      /\ call[c].at \notin Flying \cup {"joined"} /\ call[c].result = None
      /\ call[c].before \subseteq AcceptedIn(write)
      /\ Accepted = AcceptedIn(write) /\ Accepted \in SUBSET Calls /\ revision.all \in Nat
  BY <1>1, AcceptedFacts DEF CallsInv, Knows, Writeless, Flying
<1>4. ASSUME NEW d, call' = [call EXCEPT ![c] = d], Knows(write, revision, turn, d),
             d.at \in {"barrier", "settling", "flushing", "flushed"},
             call[c].at # "idle" => d.before \subseteq call[c].before
      PROVE  CallsInv(turn)'
  <2>1. /\ d.at \notin Flying \cup {"joined"} /\ d.at # "idle" /\ d.result = None
        /\ Knows(write', revision', turn, d) /\ write'[c].at = "none" /\ flight' = flight
    BY <1>1, <1>2, <1>3, <1>4 DEF Flying, Knows, Used
  <2> QED BY <1>2, <1>3, <1>4, <2>1, OneGoesOn
<1>5. CASE FlushCalled(c)
  <2> DEFINE pending == Pending
             before == Accepted
             d == [call[c] EXCEPT !.at = "barrier", !.deps = pending, !.before = before]
  <2>1. call' = [call EXCEPT ![c] = d] /\ call[c].at = "idle"
    BY <1>3, <1>5 DEF FlushCalled, At
  <2>2. /\ pending \in SUBSET (Calls \cup {NoCall, Shutdown}) /\ before \in SUBSET Calls
        /\ before \subseteq AcceptedIn(write)
    BY <1>3 DEF Pending
  <2> HIDE DEF pending, before
  <2>3. d \in CallRecord /\ d.at = "barrier" /\ d.before = before
          /\ d.result = call[c].result
    BY <1>3, <2>2 DEF CallRecord, Phase, Writeless
  <2> HIDE DEF d
  <2>4. Knows(write, revision, turn, d)
    BY <1>3, <2>2, <2>3, PlainKnows
  <2> QED BY <1>4, <2>1, <2>3, <2>4
<1>6. CASE BarrierPassed(c)
  <2> DEFINE raw == Raw
             all == revision.all
             d == [call[c] EXCEPT !.at = "settling", !.deps = raw, !.seen = all]
  <2>1. call' = [call EXCEPT ![c] = d]
    BY <1>3, <1>6 DEF BarrierPassed
  <2>2. /\ raw \in SUBSET (Calls \cup {NoCall, Shutdown}) /\ all \in Int
        /\ \A m \in Calls : write[m].at = "accepted" => m \in raw
    BY <1>3 DEF Raw, Unsettled
  <2>3. all = revision.all /\ all <= revision.all
    BY <1>3
  <2> HIDE DEF raw, all
  <2>4. /\ d \in CallRecord /\ d.at = "settling" /\ d.before = call[c].before
        /\ d.result = call[c].result /\ d.deps = raw /\ d.seen = all
    BY <1>3, <2>2 DEF CallRecord, Phase, Writeless
  <2> HIDE DEF d
  <2>5. SettlingSound(write, revision, turn, d)
    BY <2>2, <2>3, <2>4 DEF SettlingSound
  <2>6. Knows(write, revision, turn, d)
    BY <1>3, <2>4, <2>5 DEF Knows, ReadSound, FoundSound, LatestSound, LoadedSound,
       Untouched, Reading, Flying
  <2> QED BY <1>4, <2>1, <2>4, <2>6
<1>7. CASE BackendSettled(c) /\ call' = [call EXCEPT ![c].at = "flushing"]
  <2> DEFINE d == [call[c] EXCEPT !.at = "flushing"]
  <2>1. call' = [call EXCEPT ![c] = d]
    BY <1>3, <1>7
  <2>2. /\ d \in CallRecord /\ d.at = "flushing" /\ d.before = call[c].before
        /\ d.result = call[c].result
    BY <1>3 DEF CallRecord, Phase, Writeless
  <2> HIDE DEF d
  <2>3. Knows(write, revision, turn, d)
    BY <1>3, <2>2, PlainKnows
  <2> QED BY <1>4, <2>1, <2>2, <2>3
<1>8. CASE BackendSettled(c) /\ call' = [call EXCEPT ![c] = Flushed(@)]
  <2>1. call' = [call EXCEPT ![c] = Flushed(call[c])]
    BY <1>3, <1>8
  <2>2. /\ Flushed(call[c]) \in CallRecord /\ Flushed(call[c]).at = "flushed"
        /\ Flushed(call[c]).before = call[c].before /\ Flushed(call[c]).result = None
    BY <1>3, OverForm DEF Flushed, CallRecord
  <2>3. Knows(write, revision, turn, Flushed(call[c]))
    BY <1>3, <2>2, PlainKnows
  <2> QED BY <1>4, <2>1, <2>2, <2>3
<1> QED BY <1>5, <1>6, <1>7, <1>8 DEF BackendSettled

\* Those who wait for a flush hear of its end.
LEMMA FlushSettlesKeeps ==
  ASSUME CacheConstants, NEW turn, StoreInv(turn), CallsInv(turn), NEW ok \in BOOLEAN,
         FlushSettles(ok)
  PROVE  CallsInv(turn)'
<1> DEFINE P == {c \in Calls : call[c].at = "flushing"}
<1>1. /\ UNCHANGED <<store, flight>>
      /\ call' = [c \in Calls |-> IF ~At(c, "flushing") THEN call[c]
                                  ELSE IF ok THEN Flushed(call[c]) ELSE Over("done")]
  BY DEF FlushSettles
<1>2. /\ Onward(turn, turn) /\ write' = write /\ revision' = revision
      /\ \A m \in Calls : write'[m].at # "none" => Used(m)
  BY <1>1, StoreRests
<1>3. ASSUME NEW c \in P
      PROVE  /\ call'[c] \in CallRecord /\ call'[c].at \in {"flushed", "done"}
             /\ call'[c].before \subseteq call[c].before /\ call'[c].result = None
  <2>1. call[c] \in CallRecord /\ c \in Calls
    BY DEF CallsInv
  <2>2. /\ Flushed(call[c]) \in CallRecord /\ Flushed(call[c]).at = "flushed"
        /\ Flushed(call[c]).before = call[c].before /\ Flushed(call[c]).result = None
    BY <2>1, OverForm DEF Flushed, CallRecord
  <2>3. call'[c] = IF ok THEN Flushed(call[c]) ELSE Over("done")
    BY <1>1, <2>1 DEF At
  <2>4. /\ Over("done") \in CallRecord /\ Over("done").at = "done"
        /\ Over("done").result = None /\ Over("done").before = {}
    BY OverForm
  <2> QED BY <2>2, <2>3, <2>4
<1>4. \A c \in Calls \ P : call'[c] = call[c]
  BY <1>1 DEF At
<1>5. call' \in [Calls -> CallRecord]
  <2>1. \A c \in Calls : call'[c] \in CallRecord
    BY <1>3, <1>4 DEF CallsInv
  <2> QED BY <1>1, <2>1
<1>6. FlightInv'
  <2>1. \A c \in P : call[c].at \notin Flying \cup {"joined"}
          /\ call'[c].at \notin Flying \cup {"joined"}
    BY <1>3 DEF Flying
  <2>2. flight' = flight /\ FlightInv
    BY <1>1 DEF CallsInv
  <2>3. \A k \in Key : flight[k] # NoCall => flight[k] \in Calls \ P
    BY <2>1, <2>2 DEF FlightInv
  <2>4. \A k \in Key : flight[k] # NoCall =>
          call'[flight[k]].at \in Flying /\ call'[flight[k]].key = k
    BY <1>4, <2>2, <2>3 DEF FlightInv
  <2>5. \A c \in Calls : /\ call'[c].at \in Flying => flight[call'[c].key] = c
                         /\ call'[c].at = "joined" => /\ call'[c].of \in Calls
                                                      /\ flight[call'[c].key] = call'[c].of
    <3>1. \A c \in Calls : call'[c].at \in Flying \cup {"joined"} => call'[c] = call[c]
      BY <1>4, <2>1
    <3> QED BY <2>2, <3>1 DEF FlightInv
  <2> QED BY <2>2, <2>4, <2>5 DEF FlightInv
<1>7. ASSUME NEW c \in P
      PROVE  /\ Knows(write', revision', turn, call'[c])
             /\ call'[c].at \in Writeless => write'[c].at = "none"
             /\ ResultSound(write', call', c)
             /\ Lasting(c)
  <2>1. call[c].before \subseteq AcceptedIn(write')
    BY <1>2 DEF CallsInv, Knows
  <2>2. Knows(write', revision', turn, call'[c])
    BY <1>3, <2>1, PlainKnows
  <2>3. call'[c].at \notin Writeless
    BY <1>3 DEF Writeless, Reading
  <2>4. ResultSound(write', call', c) /\ Lasting(c)
    BY <1>3 DEF ResultSound, Lasting
  <2> QED BY <2>2, <2>3, <2>4
<1>8. \A c \in Calls \ P : call'[c] = call[c] /\ (write'[c].at # "none" => Used(c))
  BY <1>2, <1>4
<1> QED BY <1>2, <1>5, <1>6, <1>7, <1>8, CallsKeep

--------------------------------------------------------------------------------
(* Flush and shutdown.                                                     *)

\* The state of the flushes.
FlushRecord ==
    [work : Calls \cup {NoCall, Shutdown}, rev : Int, covers : SUBSET Calls, covered : Int,
     dirty : SUBSET Calls]

\* What is not flushed came after the revision that is, and what a flush in progress
\* does not cover after the revision it will report.
FlushInv(turn) ==
    /\ flush \in FlushRecord
    /\ flush.covered <= revision.all /\ flush.rev <= revision.all
    /\ \A m \in flush.dirty : write[m].at = "applied"
    /\ \A m \in flush.dirty \cup Unsettled : turn[m] > flush.covered
    /\ flush.work # NoCall =>
         \A m \in (flush.dirty \ flush.covers) \cup Unsettled : turn[m] > flush.rev

\* A mutation accepted meanwhile comes after all revisions flushed.
LEMMA FlushStays ==
  ASSUME NEW turn, StoreInv(turn), FlushInv(turn), NEW next, Onward(turn, next),
         UNCHANGED flush
  PROVE  FlushInv(next)'
<1>1. /\ flush \in FlushRecord /\ flush.covered \in Int /\ flush.rev \in Int
      /\ revision.all \in Nat /\ revision'.all \in Nat /\ revision.all <= revision'.all
      /\ next \in [Calls -> Int] /\ turn \in [Calls -> Int] /\ flush.dirty \in SUBSET Calls
  BY AcceptedFacts DEF FlushInv, FlushRecord, Onward, StoreInv, Turns
<1>2. flush.covered <= revision'.all /\ flush.rev <= revision'.all
  BY <1>1 DEF FlushInv
<1>3. ASSUME NEW m \in flush.dirty
      PROVE  write'[m].at = "applied" /\ next[m] = turn[m]
  BY <1>1, <1>3 DEF FlushInv, Onward, Used
<1>4. ASSUME NEW m \in Calls, write'[m].at = "accepted"
      PROVE  \/ write[m].at = "accepted" /\ next[m] = turn[m]
             \/ next[m] > revision.all
  BY <1>4 DEF Onward, Used
<1>5. \A m \in flush.dirty \cup Unsettled' : next[m] > flush.covered
  <2>1. \A m \in flush.dirty : next[m] > flush.covered
    BY <1>3 DEF FlushInv
  <2>2. ASSUME NEW m \in Calls, write'[m].at = "accepted" PROVE next[m] > flush.covered
    BY <1>1, <1>4, <2>2 DEF FlushInv, Unsettled
  <2> QED BY <2>1, <2>2 DEF Unsettled
<1>6. ASSUME flush.work # NoCall
      PROVE  \A m \in (flush.dirty \ flush.covers) \cup Unsettled' : next[m] > flush.rev
  <2>1. \A m \in flush.dirty \ flush.covers : next[m] > flush.rev
    BY <1>3, <1>6 DEF FlushInv
  <2>2. ASSUME NEW m \in Calls, write'[m].at = "accepted" PROVE next[m] > flush.rev
    BY <1>1, <1>4, <1>6, <2>2 DEF FlushInv, Unsettled
  <2> QED BY <2>1, <2>2 DEF Unsettled
<1> QED BY <1>1, <1>2, <1>3, <1>5, <1>6 DEF FlushInv

\* A mutation that takes effect is to be flushed.
LEMMA DirtyKeeps ==
  ASSUME NEW turn, StoreInv(turn), FlushInv(turn), NEW c \in Calls, Settles(c)
  PROVE  FlushInv(turn)'
<1>1. /\ flush \in FlushRecord /\ write \in [Calls -> Write] /\ turn \in [Calls -> Int]
      /\ flush.dirty \in SUBSET Calls
  BY DEF FlushInv, FlushRecord, StoreInv, StoreTyped, Turns
<1>2. /\ write[c].at = "accepted" /\ c \in Unsettled /\ revision' = revision
      /\ \A m \in Calls \ {c} : write'[m] = write[m]
      /\ \/ /\ write'[c].at = "applied"
            /\ flush' = [flush EXCEPT !.dirty = flush.dirty \cup {c}]
         \/ write'[c].at = "void" /\ flush' = flush
  <2>1. write[c] \in Write
    BY <1>1
  <2> QED BY <1>1, <2>1 DEF Settles, Write, Unsettled
<1>3. /\ flush' \in FlushRecord /\ flush'.work = flush.work /\ flush'.rev = flush.rev
      /\ flush'.covers = flush.covers /\ flush'.covered = flush.covered
      /\ flush'.dirty = flush.dirty \/ (/\ flush'.dirty = flush.dirty \cup {c}
                                        /\ write'[c].at = "applied")
  BY <1>1, <1>2 DEF FlushRecord
<1>4. Unsettled' \subseteq Unsettled
  BY <1>2 DEF Unsettled
<1>5. \A m \in flush.dirty : m # c /\ m \in Calls
  BY <1>1, <1>2 DEF FlushInv
<1>6. \A m \in flush'.dirty : write'[m].at = "applied"
  BY <1>2, <1>3, <1>5 DEF FlushInv
<1>7. flush'.dirty \cup Unsettled' \subseteq flush.dirty \cup Unsettled
  BY <1>2, <1>3, <1>4
<1>8. (flush'.dirty \ flush'.covers) \cup Unsettled'
        \subseteq (flush.dirty \ flush.covers) \cup Unsettled
  BY <1>2, <1>3, <1>4
<1> QED BY <1>2, <1>3, <1>6, <1>7, <1>8 DEF FlushInv

\* A flush starts when all that its revision counts has settled.
LEMMA FlushStartsKeeps ==
  ASSUME NEW turn, StoreInv(turn), FlushInv(turn), UNCHANGED store,
         NEW c \in Calls \cup {Shutdown}, NEW rev \in Int, rev <= revision.all,
         FlushStarts(c, rev), flush.work = NoCall => \A m \in Unsettled : turn[m] > rev
  PROVE  FlushInv(turn)'
<1>1. flush \in FlushRecord /\ write' = write /\ revision' = revision
  BY DEF FlushInv, store
<1>2. CASE flush.work # NoCall
  BY <1>1, <1>2 DEF FlushStarts, FlushInv, Unsettled
<1>3. CASE flush.work = NoCall
  <2>1. flush' = [flush EXCEPT !.work = c, !.rev = rev, !.covers = flush.dirty]
    BY <1>3 DEF FlushStarts
  <2>2. /\ flush' \in FlushRecord /\ flush'.rev = rev /\ flush'.covers = flush.dirty
        /\ flush'.dirty = flush.dirty /\ flush'.covered = flush.covered
    BY <1>1, <2>1 DEF FlushRecord
  <2>3. Unsettled' = Unsettled
    BY <1>1 DEF Unsettled
  <2> QED BY <1>1, <1>3, <2>2, <2>3 DEF FlushInv
<1> QED BY <1>2, <1>3

\* A flush that has succeeded covers its revision, and what was dirty when it started.
LEMMA FlushEndsKeeps ==
  ASSUME NEW turn, StoreInv(turn), FlushInv(turn), NEW ok \in BOOLEAN, FlushSettles(ok)
  PROVE  FlushInv(turn)'
<1>1. /\ flush \in FlushRecord /\ write' = write /\ revision' = revision
           /\ Unsettled' = Unsettled
      /\ flush.work # NoCall /\ flush.covered \in Int /\ flush.rev \in Int
      /\ revision.all \in Nat /\ flush.dirty \subseteq Calls /\ Unsettled \subseteq Calls
      /\ turn \in [Calls -> Int]
  BY AcceptedFacts DEF FlushInv, FlushRecord, FlushSettles, store, Unsettled, StoreInv,
     Turns
<1>2. flush' = [work |-> NoCall, rev |-> 0, covers |-> {},
                covered |-> IF ok THEN Covered ELSE flush.covered,
                dirty |-> IF ok THEN flush.dirty \ flush.covers ELSE flush.dirty]
  BY DEF FlushSettles
<1>3. Covered \in Int /\ (Covered = flush.covered \/ Covered = flush.rev)
  BY <1>1 DEF Covered, Higher
<1>4. /\ flush' \in FlushRecord /\ flush'.work = NoCall /\ flush'.rev = 0
      /\ flush'.dirty \subseteq flush.dirty
      /\ \/ flush'.covered = flush.covered
         \/ flush'.covered = flush.rev /\ flush'.dirty = flush.dirty \ flush.covers
  BY <1>1, <1>2, <1>3 DEF FlushRecord
<1>5. \A m \in flush'.dirty \cup Unsettled : turn[m] > flush'.covered
  BY <1>1, <1>4 DEF FlushInv
<1> QED BY <1>1, <1>4, <1>5 DEF FlushInv

\* The phases of a call of flush, and the ends of calls.
Flushes == {"barrier", "settling", "flushing"}
Ends == {"done", "flushed"}

\* Once admission has closed calls only go on and end.
Fading ==
    \A c \in Calls :
      \/ call'[c].at = call[c].at
      \/ call[c].at \notin {"idle"} \cup Ends \cup Flushes /\ call'[c].at \notin Flushes
      \/ call[c].at \in Flushes /\ call'[c].at \in Flushes \cup Ends

\* No call comes to be waited for.
LEMMA FadesAll ==
  ASSUME Fading
  PROVE  Pending' \subseteq Pending /\ Requests' \subseteq Requests
BY DEF Fading, Pending, Requests, Flushes, Ends

\* A single call goes on or ends.
LEMMA OneFades ==
  ASSUME call \in [Calls -> CallRecord], NEW c \in Calls, NEW d,
         call' = [call EXCEPT ![c] = d],
         \/ call[c].at \notin {"idle"} \cup Ends \cup Flushes /\ d.at \notin Flushes
         \/ call[c].at \in Flushes /\ d.at \in Flushes \cup Ends
  PROVE  Fading
BY DEF Fading

\* The passengers of a flight end with it.
LEMMA LandsFades ==
  ASSUME NEW c \in Calls, NEW version, Lands(c, version), call[c].at \in Flying
  PROVE  Fading
<1>1. \A d \in Calls : call'[d] = call[d] \/ (d \in Passengers(c) /\ call'[d].at = "done")
  BY DoneIsDone DEF Lands
<1>2. \A d \in Passengers(c) : call[d].at \in Flying \cup {"joined"}
  BY DEF Passengers, At
<1> QED BY <1>1, <1>2 DEF Fading, Flying, Ends, Flushes

\* So do those of a flight that has failed.
LEMMA CrashesFades ==
  ASSUME CacheConstants, call \in [Calls -> CallRecord], NEW c \in Calls,
         NEW current \in Entry, Crashes(c, current), call[c].at \in Flying
  PROVE  Fading
<1>1. \A d \in Calls : call'[d] = call[d] \/ (d \in Passengers(c) /\ call'[d].at = "done")
  BY CrashForm
<1>2. \A d \in Passengers(c) : call[d].at \in Flying \cup {"joined"}
  BY DEF Passengers, At
<1> QED BY <1>1, <1>2 DEF Fading, Flying, Ends, Flushes

\* A call that has mutated or saved ends.
LEMMA ResumesFades ==
  ASSUME NEW c \in Calls, call \in [Calls -> CallRecord], Resumes(c)
  PROVE  Fading
<1>1. CASE At(c, "mutating")
  <2>1. call' = [call EXCEPT ![c] = Done(call[c], None)] /\ call[c].at = "mutating"
    BY <1>1 DEF Resumes, Returns, At
  <2> QED BY <2>1, DoneIsDone, OneFades DEF Ends, Flushes
<1>2. CASE At(c, "saving")
  <2>1. Lands(c, call[c].loaded) /\ call[c].at \in Flying
    BY <1>2 DEF Resumes, At, Flying
  <2> QED BY <2>1, LandsFades
<1>3. CASE ~At(c, "mutating") /\ ~At(c, "saving")
  BY <1>3 DEF Resumes, Fading
<1> QED BY <1>1, <1>2, <1>3

\* A call that departs goes on.
LEMMA DepartsFades ==
  ASSUME CacheConstants, NEW c \in Calls, call \in [Calls -> CallRecord],
         call[c].at = "lookup", NEW found, NEW again \in BOOLEAN, Departs(c, found, again)
  PROVE  Fading
<1> DEFINE k == KeyOf(c)
           a == [call[c] EXCEPT !.at = "recheck", !.key = k, !.deps = Dependencies({k}),
                                !.answer = Unread, !.asked = Accepted]
           d == [a EXCEPT !.found = found, !.seen = revision.of[k], !.missed = Missed(c)]
           j == [d EXCEPT !.at = "joined", !.deps = {}, !.asked = {}, !.of = flight[k]]
           l == [d EXCEPT !.at = "loading", !.deps = {}, !.answer = Unread,
                          !.asked = {}, !.base = revision.of[k]]
<1>1. \/ call' = [call EXCEPT ![c] = j] \/ call' = [call EXCEPT ![c] = d]
      \/ call' = [call EXCEPT ![c] = l]
  BY DEF Departs, Asks, Loading
<1>2. d.at = "recheck" /\ j.at = "joined" /\ l.at = "loading"
  BY DEF CallRecord
<1> HIDE DEF j, d, l
<1> QED BY <1>1, <1>2, OneFades DEF Ends, Flushes

\* Once admission has closed a call only goes on.
LEMMA CallFades ==
  ASSUME CacheConstants, NEW turn, CallsInv(turn), state # "running", NEW c \in Calls,
         \/ Method(c) \/ GetReturns(c) \/ GetFails(c) \/ LoadStep(c)
         \/ Read(c) \/ Settles(c) \/ TimesOut(c)
  PROVE  Fading
<1>1. call \in [Calls -> CallRecord] /\ call[c] \in CallRecord
  BY DEF CallsInv
<1>2. ~Method(c)
  BY DEF Method, Get, Load, Set, Delete, Invalidate, Call, Mutate, FlushCalled
<1>3. CASE GetReturns(c) \/ GetFails(c)
  <2>1. PICK version : call' = [call EXCEPT ![c] = Done(call[c], version)]
          /\ call[c].at = "get"
    BY <1>3 DEF GetReturns, GetFails, Answered, Returns, At
  <2> QED BY <1>1, <2>1, DoneIsDone, OneFades DEF Ends, Flushes
<1>4. CASE LookupReturns(c)
  <2>1. call[c].at = "lookup"
    BY <1>4 DEF LookupReturns, Answered, At
  <2>2. CASE Returns(c, call[c].answer.version)
    BY <1>1, <2>1, <2>2, DoneIsDone, OneFades DEF Ends, Flushes, Returns
  <2>3. CASE Departs(c, call[c].answer, TRUE)
    BY <1>1, <2>1, <2>3, DepartsFades
  <2> QED BY <1>4, <2>2, <2>3 DEF LookupReturns
<1>5. CASE LookupFails(c)
  BY <1>1, <1>5, DepartsFades DEF LookupFails, At
<1>6. CASE RecheckReturns(c) \/ RecheckFails(c)
  <2> DEFINE k == KeyOf(c)
             l == [call[c] EXCEPT !.at = "loading", !.deps = {}, !.answer = Unread,
                                  !.asked = {}, !.base = revision.of[k]]
             m == [l EXCEPT !.latest = call[c].answer, !.missed = Missed(c)]
             b == [l EXCEPT !.blind = TRUE]
  <2>1. call[c].at = "recheck" /\ call[c].at \in Flying
    BY <1>6 DEF RecheckReturns, RecheckFails, Answered, At, Flying
  <2>2. \/ Lands(c, call[c].answer.version)
        \/ call' = [call EXCEPT ![c] = m] \/ call' = [call EXCEPT ![c] = b]
    BY <1>1, <1>6 DEF RecheckReturns, RecheckFails, Loading
  <2>3. m.at = "loading" /\ b.at = "loading"
    BY <1>1 DEF CallRecord
  <2> HIDE DEF m, b
  <2> QED BY <1>1, <2>1, <2>2, <2>3, LandsFades, OneFades DEF Ends, Flushes
<1>7. CASE LoaderReads(c)
  BY <1>1, <1>7 DEF LoaderReads, At, Fading
<1>8. CASE LoaderReturns(c)
  <2>1. call[c].at = "loading" /\ call[c].at \in Flying
    BY <1>8 DEF LoaderReturns, At, Flying
  <2>2. Lands(c, call[c].loaded) \/ call' = [call EXCEPT ![c].at = "saving"]
    BY <1>8 DEF LoaderReturns
  <2>3. CASE call' = [call EXCEPT ![c].at = "saving"]
    BY <1>1, <2>1, <2>3 DEF Fading, Ends, Flushes
  <2> QED BY <2>1, <2>2, <2>3, LandsFades
<1>9. CASE LoaderFails(c)
  <2>1. call[c].at = "loading" /\ call[c].at \in Flying /\ call[c].latest \in Entry
    BY <1>1, <1>9 DEF LoaderFails, At, Flying, CallRecord
  <2>2. CASE Crashes(c, call[c].latest)
    BY <1>1, <2>1, <2>2, CrashesFades
  <2>3. CASE call' = [call EXCEPT ![c] = Asks(c, KeyOf(c), "reread")]
    <3>1. Asks(c, KeyOf(c), "reread").at = "reread"
      BY <1>1 DEF Asks, CallRecord
    <3> QED BY <1>1, <2>1, <2>3, <3>1, OneFades DEF Ends, Flushes
  <2> QED BY <1>9, <2>2, <2>3 DEF LoaderFails
<1>10. CASE RereadReturns(c) \/ RereadFails(c)
  <2>1. call[c].at \in Flying /\ call[c].answer \in Entry /\ Miss \in Entry
    BY <1>1, <1>10 DEF RereadReturns, RereadFails, Answered, At, Flying, CallRecord, Miss,
       Entry, None
  <2> QED BY <1>1, <1>10, <2>1, CrashesFades DEF RereadReturns, RereadFails
<1>11. CASE Read(c)
  BY <1>1, <1>11 DEF Read, Fading
<1>12. CASE Settles(c) \/ TimesOut(c)
  BY <1>1, <1>12, ResumesFades DEF Settles, TimesOut
<1> QED BY <1>2, <1>3, <1>4, <1>5, <1>6, <1>7, <1>8, <1>9, <1>10, <1>11, <1>12 DEF LoadStep

\* Once all calls have ended nothing more is accepted.
LEMMA NothingNew ==
  ASSUME CacheConstants, NEW turn, StoreInv(turn), CallsInv(turn), state # "running",
         Pending = {},
         NEW c \in Calls,
         \/ Method(c) \/ GetReturns(c) \/ GetFails(c) \/ LoadStep(c)
         \/ Read(c) \/ Settles(c) \/ TimesOut(c)
  PROVE  Settles(c) /\ Unsettled' \subseteq Unsettled \ {c}
<1>1. call[c].at \in {"idle"} \cup Ends \cup Flushes
  BY DEF Pending, Requests, Ends, Flushes
<1>2. ~Method(c)
  BY DEF Method, Get, Load, Set, Delete, Invalidate, Call, Mutate, FlushCalled
<1>3. /\ ~GetReturns(c) /\ ~GetFails(c) /\ ~LoadStep(c) /\ ~Read(c) /\ ~TimesOut(c)
  BY <1>1 DEF GetReturns, GetFails, LoadStep, Read, TimesOut, LookupReturns, LookupFails,
     RecheckReturns, RecheckFails, LoaderReads, LoaderReturns, LoaderFails, RereadReturns,
     RereadFails, Answered, At, Ends, Flushes
<1>4. Settles(c)
  BY <1>2, <1>3
<1>5. /\ \A m \in Calls \ {c} : write'[m] = write[m]
      /\ write'[c].at # "accepted"
  BY <1>4 DEF Settles, StoreInv, StoreTyped, Write
<1> QED BY <1>4, <1>5 DEF Unsettled

\* Where shutdown is, nothing is left of what it has waited for.
StopInv ==
    /\ state \in {"running", "draining", "closed"}
    /\ stop.at \in {"none", "draining", "requests", "settling", "flushing", "closing"}
    /\ stop.at # "none" => state = "draining"
    /\ stop.at = "draining" => Pending \subseteq stop.deps
    /\ stop.at \in {"requests", "settling", "flushing", "closing"} \/ state = "closed" =>
         Pending = {}
    /\ stop.at = "requests" => Requests \subseteq stop.deps
    /\ stop.at \in {"settling", "flushing", "closing"} \/ state = "closed" => Requests = {}
    /\ stop.at = "settling" => Raw \subseteq stop.deps
    /\ stop.at = "flushing" =>
         Unsettled = {} /\ flush.covers = flush.dirty /\ flush.work # NoCall
    /\ stop.at = "closing" \/ state = "closed" => Raw = {} /\ flush.dirty = {}

\* Calls and the backend go on while the runtime shuts down.
LEMMA StopStays ==
  ASSUME StopInv, UNCHANGED <<state, stop>>, state # "running" => Fading,
         flush'.work = flush.work, flush'.covers = flush.covers,
         state # "running" /\ Pending = {} =>
            /\ Unsettled' \subseteq Unsettled
            /\ Unsettled = {} => flush'.dirty = flush.dirty
  PROVE  StopInv'
<1>1. CASE state = "running"
  BY <1>1 DEF StopInv
<1>2. CASE state # "running"
  <2>1. Pending' \subseteq Pending /\ Requests' \subseteq Requests
    BY <1>2, FadesAll
  <2>2. Pending = {} => Raw' \subseteq Raw
    BY <1>2 DEF Raw
  <2>3. Unsettled \subseteq Raw
    BY DEF Raw
  <2>4. stop.at \in {"settling", "flushing", "closing"} \/ state = "closed" => Pending = {}
    BY DEF StopInv
  <2>5. stop.at = "flushing" =>
          Unsettled' = {} /\ flush'.covers = flush'.dirty /\ flush'.work # NoCall
    BY <1>2, <2>4 DEF StopInv
  <2>6. stop.at = "closing" \/ state = "closed" => Raw' = {} /\ flush'.dirty = {}
    BY <1>2, <2>2, <2>3, <2>4 DEF StopInv
  <2> QED BY <2>1, <2>2, <2>4, <2>5, <2>6 DEF StopInv
<1> QED BY <1>1, <1>2

\* The steps of calls leave the shutdown where it is.
LEMMA CallsStop ==
  ASSUME CacheConstants, NEW turn, StoreInv(turn), CallsInv(turn), flush \in FlushRecord,
         StopInv,
         NEW c \in Calls,
         \/ Method(c) \/ GetReturns(c) \/ GetFails(c) \/ LoadStep(c)
         \/ Read(c) \/ Settles(c) \/ TimesOut(c)
  PROVE  StopInv'
<1>1. UNCHANGED <<state, stop>> /\ flush'.work = flush.work /\ flush'.covers = flush.covers
  BY DEF Method, Get, Load, Set, Delete, Invalidate, Call, Mutate, FlushCalled, GetReturns,
     GetFails, LoadStep, Read, Settles, TimesOut, LookupReturns, LookupFails,
     RecheckReturns, RecheckFails, LoaderReads, LoaderReturns, LoaderFails, RereadReturns,
     RereadFails, ending, FlushRecord
<1>2. state # "running" => Fading
  BY CallFades
<1>3. state # "running" /\ Pending = {} =>
            /\ Unsettled' \subseteq Unsettled
            /\ Unsettled = {} => flush'.dirty = flush.dirty
  BY NothingNew DEF Settles, Unsettled
<1> QED BY <1>1, <1>2, <1>3, StopStays

\* A request of flush holds the shutdown until it has ended.
LEMMA RequestsStop ==
  ASSUME CacheConstants, NEW turn, CallsInv(turn), StopInv, NEW c \in Calls,
         BarrierPassed(c) \/ BackendSettled(c)
  PROVE  StopInv'
<1>1. /\ call[c].at \in {"barrier", "settling"} /\ c \in Requests
      /\ UNCHANGED <<state, stop>> /\ call \in [Calls -> CallRecord]
           /\ call[c] \in CallRecord
  BY DEF BarrierPassed, BackendSettled, At, ending, Requests, CallsInv
<1>2. Fading
  <2>1. CASE BarrierPassed(c)
    BY <1>1, <2>1 DEF BarrierPassed, Fading, Flushes, Ends
  <2>2. CASE call' = [call EXCEPT ![c].at = "flushing"]
    BY <1>1, <2>2 DEF Fading, Flushes, Ends
  <2>3. CASE call' = [call EXCEPT ![c] = Flushed(@)]
    <3>1. Flushed(call[c]).at = "flushed"
      BY <1>1, OverForm DEF Flushed, CallRecord
    <3>2. call' = [call EXCEPT ![c] = Flushed(call[c])]
      BY <1>1, <2>3
    <3> QED BY <1>1, <3>1, <3>2, OneFades DEF Flushes, Ends
  <2> QED BY <2>1, <2>2, <2>3 DEF BackendSettled
<1>3. Pending' \subseteq Pending /\ Requests' \subseteq Requests
  BY <1>2, FadesAll
<1>4. stop.at \notin {"settling", "flushing", "closing"} /\ state # "closed"
  BY <1>1 DEF StopInv
<1> QED BY <1>1, <1>3, <1>4 DEF StopInv

\* The end of a flush is what the last step of a shutdown waits for.
LEMMA FlushStop ==
  ASSUME CacheConstants, NEW turn, CallsInv(turn), flush \in FlushRecord, StopInv,
         NEW ok \in BOOLEAN, FlushSettles(ok)
  PROVE  StopInv'
<1>1. /\ state' = state /\ flush.work # NoCall /\ Unsettled' = Unsettled
      /\ flush'.work = NoCall
      /\ flush'.dirty = IF ok THEN flush.dirty \ flush.covers ELSE flush.dirty
      /\ stop' = IF stop.at # "flushing" THEN stop
                 ELSE [at |-> IF ok THEN "closing" ELSE "none", deps |-> {}]
  BY DEF FlushSettles, store, Unsettled
<1>2. Fading
  <2>1. \A d \in CallRecord : Flushed(d).at = "flushed" /\ Over("done").at = "done"
    BY OverForm DEF Flushed, CallRecord
  <2>2. \A d \in Calls : call[d] \in CallRecord
    BY DEF CallsInv
  <2> QED BY <2>1, <2>2 DEF FlushSettles, Fading, At, Flushes, Ends
<1>3. Pending' \subseteq Pending /\ Requests' \subseteq Requests
  BY <1>2, FadesAll
<1>4. Raw' = Unsettled /\ Raw' \subseteq Raw /\ Raw # {}
  BY <1>1 DEF Raw
<1>5. CASE stop.at = "flushing"
  <2>1. CASE ok
    BY <1>1, <1>3, <1>4, <1>5, <2>1 DEF StopInv
  <2>2. CASE ~ok
    BY <1>1, <1>3, <1>4, <1>5, <2>2 DEF StopInv
  <2> QED BY <2>1, <2>2
<1>6. CASE stop.at # "flushing"
  <2>1. stop' = stop /\ stop.at # "closing" /\ state # "closed"
    BY <1>1, <1>4, <1>6 DEF StopInv
  <2> QED BY <1>1, <1>3, <1>4, <1>6, <2>1 DEF StopInv
<1> QED BY <1>5, <1>6

\* Shutdown goes on when nothing is left to wait for.
LEMMA ShutdownStop ==
  ASSUME CacheConstants, NEW turn, StoreInv(turn), FlushInv(turn), StopInv,
         ShutdownCalled \/ Drained \/ RequestsSettled \/ LastFlush \/ Closes
  PROVE  StopInv'
<1>1. call' = call /\ write' = write
  BY DEF ShutdownCalled, Drained, RequestsSettled, LastFlush, Closes, store
<1>2. Pending' = Pending /\ Requests' = Requests /\ Unsettled' = Unsettled
  BY <1>1 DEF Pending, Requests, Unsettled
<1>3. flush' = flush => Raw' = Raw
  BY <1>2 DEF Raw
<1>4. CASE ShutdownCalled
  BY <1>2, <1>3, <1>4 DEF ShutdownCalled, StopInv
<1>5. CASE Drained
  <2>1. Pending = {}
    BY <1>5 DEF Drained, StopInv
  <2> QED BY <1>2, <1>3, <1>5, <2>1 DEF Drained, StopInv
<1>6. CASE RequestsSettled
  <2>1. Requests = {}
    BY <1>6 DEF RequestsSettled, StopInv
  <2> QED BY <1>2, <1>3, <1>6, <2>1 DEF RequestsSettled, StopInv
<1>7. CASE LastFlush
  <2>1. /\ Raw = {} /\ Unsettled = {} /\ flush.work = NoCall /\ stop.at = "settling"
        /\ state' = state /\ state = "draining" /\ Pending = {} /\ Requests = {}
    BY <1>7 DEF LastFlush, StopSettled, RawSettled, StopInv, Raw
  <2>2. CASE flush.covered < revision.all
    <3>1. /\ flush' = [flush EXCEPT !.work = Shutdown, !.rev = revision.all,
                                       !.covers = flush.dirty]
          /\ stop' = [at |-> "flushing", deps |-> {}]
      BY <1>7, <2>1, <2>2 DEF LastFlush, FlushStarts
    <3>2. flush'.work # NoCall /\ flush'.covers = flush'.dirty
      BY <3>1 DEF FlushInv, FlushRecord, CacheConstants
    <3> QED BY <1>2, <2>1, <3>1, <3>2 DEF StopInv
  <2>3. CASE ~(flush.covered < revision.all)
    <3>1. flush' = flush /\ stop' = [at |-> "closing", deps |-> {}]
      BY <1>7, <2>3 DEF LastFlush
    <3>2. flush.dirty = {}
      <4> SUFFICES ASSUME NEW m \in flush.dirty PROVE FALSE
        OBVIOUS
      <4>1. m \in Calls /\ Used(m) /\ turn[m] > flush.covered /\ flush.covered \in Int
        BY DEF FlushInv, FlushRecord, Used
      <4>2. turn[m] <= revision.all /\ turn[m] \in Int /\ revision.all \in Nat
        BY <4>1 DEF StoreInv, StoreTyped, Turns
      <4> QED BY <2>3, <4>1, <4>2
    <3> QED BY <1>2, <1>3, <2>1, <3>1, <3>2 DEF StopInv
  <2> QED BY <2>2, <2>3
<1>8. CASE Closes
  <2>1. /\ Raw = {} /\ flush.dirty = {} /\ stop.at = "closing" /\ flush' = flush
        /\ stop'.at = "none" /\ state = "draining" /\ Pending = {} /\ Requests = {}
        /\ state' \in {"draining", "closed"}
    BY <1>8 DEF Closes, StopInv
  <2> QED BY <1>2, <1>3, <2>1 DEF StopInv
<1> QED BY <1>4, <1>5, <1>6, <1>7, <1>8

--------------------------------------------------------------------------------
\* The inductive invariant, for the revisions that the mutations were given.
CacheInv(turn) == StoreInv(turn) /\ CallsInv(turn) /\ FlushInv(turn) /\ StopInv

\* The steps of calls keep the invariant; those that accept a mutation give it its turn.
LEMMA CallStep ==
  ASSUME CacheConstants, NEW turn, CacheInv(turn), NEW c \in Calls,
         \/ Method(c) \/ GetReturns(c) \/ GetFails(c) \/ LoadStep(c)
         \/ Read(c) \/ TimesOut(c)
  PROVE  \E next : StoreInv(next)' /\ CallsInv(next)' /\ FlushInv(next)'
<1>1. /\ StoreInv(turn) /\ CallsInv(turn) /\ FlushInv(turn)
      /\ flush.work \in Calls \cup {NoCall, Shutdown}
  BY DEF CacheInv, FlushInv, FlushRecord
<1>2. flush' = flush
  BY DEF Method, Get, Load, Set, Delete, Invalidate, Call, Mutate, FlushCalled, GetReturns,
     GetFails, LoadStep, Read, TimesOut, LookupReturns, LookupFails, RecheckReturns,
     RecheckFails, LoaderReads, LoaderReturns, LoaderFails, RereadReturns, RereadFails,
     ending
<1>3. ASSUME NEW next, StoreInv(next)', CallsInv(next)', Onward(turn, next)
      PROVE  \E n : StoreInv(n)' /\ CallsInv(n)' /\ FlushInv(n)'
  BY <1>1, <1>2, <1>3, FlushStays
<1>4. ASSUME UNCHANGED store, CallsInv(turn)'
      PROVE  \E n : StoreInv(n)' /\ CallsInv(n)' /\ FlushInv(n)'
  BY <1>1, <1>3, <1>4, StoreRests
<1>5. CASE Method(c)
  <2>1. ASSUME NEW k \in Key, Get(c, k) \/ Load(c, k)
        PROVE  UNCHANGED store /\ CallsInv(turn)'
    BY <1>1, <2>1, CallKeeps DEF Get, Load, Call
  <2>2. ASSUME NEW K \in SUBSET Key, NEW broad \in BOOLEAN, broad => K = Key, NEW version,
               version = None \/ version = source + 1, Mutate(c, K, broad, version)
        PROVE  \E n : StoreInv(n)' /\ CallsInv(n)' /\ FlushInv(n)'
    <3>1. \E next : StoreInv(next)' /\ CallsInv(next)' /\ Onward(turn, next)
      BY <1>1, <2>2, MutateKeeps, Zenon
    <3> QED BY <1>3, <3>1
  <2>3. ASSUME NEW k \in Key, Set(c, k) \/ Delete(c, k)
        PROVE  \E n : StoreInv(n)' /\ CallsInv(n)' /\ FlushInv(n)'
    <3>1. PICK broad \in BOOLEAN : broad = FALSE
      OBVIOUS
    <3>2. {k} \in SUBSET Key /\ (broad => {k} = Key)
      BY <3>1
    <3>3. Mutate(c, {k}, broad, source + 1) \/ Mutate(c, {k}, broad, None)
      BY <2>3, <3>1, Zenon DEF Set, Delete
    <3> QED BY <2>2, <3>2, <3>3, Zenon
  <2>4. CASE Invalidate(c)
    <3>1. PICK broad \in BOOLEAN : broad = TRUE
      OBVIOUS
    <3>2. Mutate(c, Key, broad, None)
      BY <2>4, <3>1, Zenon DEF Invalidate
    <3> QED BY <2>2, <3>2, Zenon
  <2>5. ASSUME FlushCalled(c) PROVE UNCHANGED store /\ CallsInv(turn)'
    BY <1>1, <2>5, FlushCallKeeps DEF FlushCalled
  <2> QED BY <1>4, <1>5, <2>1, <2>3, <2>4, <2>5 DEF Method
<1>6. CASE GetReturns(c) \/ GetFails(c) \/ Read(c) \/ TimesOut(c)
  <2>1. UNCHANGED store
    BY <1>6 DEF GetReturns, GetFails, Read, TimesOut
  <2> QED BY <1>1, <1>4, <1>6, <2>1, GetEnds, ReadKeeps, TimesOutKeeps
<1>7. CASE LoaderReturns(c)
  <2>1. \E next : StoreInv(next)' /\ CallsInv(next)' /\ Onward(turn, next)
    BY <1>1, <1>7, LoaderReturnsKeeps
  <2> QED BY <1>3, <2>1
<1>8. CASE LoadStep(c) /\ ~LoaderReturns(c)
  <2>1. UNCHANGED store
    BY <1>8 DEF LoadStep, LookupReturns, LookupFails, RecheckReturns, RecheckFails,
       LoaderReads, LoaderFails, RereadReturns, RereadFails
  <2>2. CallsInv(turn)'
    BY <1>1, <1>8, LookupKeeps, RecheckKeeps, LoaderReadsKeeps, LoaderFailsKeeps,
       RereadKeeps DEF LoadStep
  <2> QED BY <1>4, <2>1, <2>2
<1> QED BY <1>5, <1>6, <1>7, <1>8

\* Every step keeps it.
LEMMA NextStep ==
  ASSUME CacheConstants, NEW turn, CacheInv(turn), [Next]_vars
  PROVE  \E next : CacheInv(next)'
<1>1. /\ StoreInv(turn) /\ CallsInv(turn) /\ FlushInv(turn) /\ StopInv
      /\ flush.work \in Calls \cup {NoCall, Shutdown} /\ flush \in FlushRecord
  BY DEF CacheInv, FlushInv, FlushRecord
<1>2. ASSUME StopInv', UNCHANGED store, CallsInv(turn)', FlushInv(turn)'
      PROVE  \E next : CacheInv(next)'
  BY <1>1, <1>2, StoreRests DEF CacheInv
<1>3. ASSUME UNCHANGED <<store, call, flight, flush>>
      PROVE  CallsInv(turn)' /\ FlushInv(turn)'
  BY <1>1, <1>3, StoreRests, NothingGoesOn, FlushStays
<1>4. ASSUME NEW c \in Calls,
             \/ Method(c) \/ GetReturns(c) \/ GetFails(c) \/ LoadStep(c)
             \/ Read(c) \/ TimesOut(c)
      PROVE  \E next : CacheInv(next)'
  <2>1. \E next : StoreInv(next)' /\ CallsInv(next)' /\ FlushInv(next)'
    BY <1>4, CallStep
  <2>2. StopInv'
    BY <1>1, <1>4, CallsStop
  <2> QED BY <2>1, <2>2 DEF CacheInv
<1>5. ASSUME NEW c \in Calls, Settles(c)
      PROVE  \E next : CacheInv(next)'
  <2>1. StoreInv(turn)' /\ CallsInv(turn)' /\ FlushInv(turn)'
    BY <1>1, <1>5, SettlesKeeps, DirtyKeeps
  <2>2. StopInv'
    BY <1>1, <1>5, CallsStop
  <2> QED BY <2>1, <2>2 DEF CacheInv
<1>6. ASSUME NEW k \in Key, TurnsStale(k) \/ Leaves(k)
      PROVE  \E next : CacheInv(next)'
  <2>1. UNCHANGED <<source, revision, tails, write, call, flight, ending>>
    BY <1>6 DEF TurnsStale, Leaves
  <2>2. StoreInv(turn)'
    BY <1>1, <1>6, <2>1, EntryKeeps DEF TurnsStale, Leaves
  <2>3. /\ Onward(turn, turn) /\ flush' = flush
        /\ \A m \in Calls : write'[m].at # "none" => Used(m)
    BY <1>1, <2>1 DEF Onward, StoreInv, StoreTyped, Turns, Used, ending
  <2>4. CallsInv(turn)' /\ FlushInv(turn)'
    BY <1>1, <2>1, <2>3, NothingGoesOn, FlushStays
  <2>5. StopInv'
    BY <1>1, <2>1 DEF StopInv, ending, Pending, Requests, Raw, Unsettled
  <2> QED BY <2>2, <2>4, <2>5 DEF CacheInv
<1>7. ASSUME NEW ok \in BOOLEAN, FlushSettles(ok)
      PROVE  \E next : CacheInv(next)'
  <2>1. UNCHANGED store
    BY <1>7 DEF FlushSettles
  <2>2. CallsInv(turn)' /\ FlushInv(turn)' /\ StopInv'
    BY <1>1, <1>7, FlushSettlesKeeps, FlushEndsKeeps, FlushStop
  <2> QED BY <1>2, <2>1, <2>2
<1>8. ASSUME NEW c \in Calls, BarrierPassed(c) \/ BackendSettled(c)
      PROVE  \E next : CacheInv(next)'
  <2>1. UNCHANGED store
    BY <1>8 DEF BarrierPassed, BackendSettled
  <2>2. CallsInv(turn)' /\ StopInv'
    BY <1>1, <1>8, FlushCallKeeps, RequestsStop
  <2>3. FlushInv(turn)'
    <3>1. CASE UNCHANGED flush
      BY <1>1, <2>1, <3>1, StoreRests, FlushStays
    <3>2. CASE BackendSettled(c) /\ FlushStarts(c, call[c].seen)
      <4>1. /\ call[c].at = "settling" /\ call[c].deps \cap Raw = {}
            /\ Knows(write, revision, turn, call[c]) /\ call[c].seen \in Int
        BY <1>1, <3>2 DEF BackendSettled, At, RawSettled, CallsInv, CallRecord
      <4>2. /\ call[c].seen <= revision.all
            /\ \A m \in Unsettled : turn[m] > call[c].seen
        BY <4>1 DEF Knows, SettlingSound, Unsettled, Raw
      <4> QED BY <1>1, <2>1, <3>2, <4>1, <4>2, FlushStartsKeeps
    <3> QED BY <1>8, <3>1, <3>2 DEF BarrierPassed, BackendSettled, ending
  <2> QED BY <1>2, <2>1, <2>2, <2>3
<1>9. ASSUME ShutdownCalled \/ Drained \/ RequestsSettled \/ LastFlush \/ Closes
      PROVE  \E next : CacheInv(next)'
  <2>1. UNCHANGED <<store, call, flight>>
    BY <1>9 DEF ShutdownCalled, Drained, RequestsSettled, LastFlush, Closes
  <2>2. StopInv' /\ CallsInv(turn)'
    BY <1>1, <1>9, <2>1, ShutdownStop, StoreRests, NothingGoesOn
  <2>3. FlushInv(turn)'
    <3>1. CASE UNCHANGED flush
      BY <1>1, <2>1, <3>1, StoreRests, FlushStays
    <3>2. CASE LastFlush /\ FlushStarts(Shutdown, revision.all)
      <4>1. Unsettled = {} /\ revision.all \in Nat
        BY <1>1, <3>2, AcceptedFacts DEF LastFlush, StopSettled, RawSettled, StopInv, Raw
      <4> QED BY <1>1, <2>1, <3>2, <4>1, FlushStartsKeeps
    <3> QED BY <1>9, <3>1, <3>2 DEF ShutdownCalled, Drained, RequestsSettled, LastFlush,
               Closes
  <2> QED BY <1>2, <2>1, <2>2, <2>3
<1>10. CASE UNCHANGED vars
  <2>1. UNCHANGED <<store, call, flight, flush, state, stop>>
    BY <1>10 DEF vars, ending
  <2>2. StopInv'
    BY <1>1, <2>1 DEF StopInv, Pending, Requests, Raw, Unsettled, store
  <2> QED BY <1>2, <1>3, <2>1, <2>2
<1> QED BY <1>4, <1>5, <1>6, <1>7, <1>8, <1>9, <1>10 DEF Next, BackendStep, FinalizationStep

\* It holds when nothing has happened yet.
LEMMA InitHolds ==
  ASSUME CacheConstants, Init
  PROVE  \E turn : CacheInv(turn)
<1>1. PICK turn : turn = [m \in Calls |-> 0]
  OBVIOUS
<1>2. /\ Unsettled = {} /\ Accepted = {} /\ AcceptedIn(write) = {}
      /\ \A m \in Calls : write[m] = NoWrite /\ ~Used(m) /\ call[m] = FreshCall
  BY DEF Init, Unsettled, Accepted, AcceptedIn, Used, NoWrite
<1>3. StoreInv(turn)
  <2>1. StoreTyped
    <3>1. entry \in [Key -> Entry]
            /\ \A k \in Key : entry[k].version = None => entry[k] = Miss
      <4> DEFINE first == [version |-> 0, stale |-> FALSE]
      <4>1. first \in Entry /\ Miss \in Entry /\ first.version # None
        BY DEF Entry, Miss, None
      <4>2. entry \in [Key -> {Miss, first}]
        BY DEF Init
      <4> HIDE DEF first
      <4> QED BY <4>1, <4>2
    <3>2. write \in [Calls -> Write]
      BY DEF Init, NoWrite, Write, None
    <3> QED BY <3>1, <3>2 DEF Init, StoreTyped
  <2>2. Turns(turn)
    BY <1>1, <1>2 DEF Turns
  <2>3. Ordered(turn)
    BY <1>2 DEF Ordered, Covers, Unsettled
  <2>4. Forward(turn) /\ NoResurrection
    BY <1>2 DEF Forward, NoResurrection, Effective
  <2> QED BY <2>1, <2>2, <2>3, <2>4 DEF StoreInv
<1>4. CallsInv(turn)
  <2>1. /\ FreshCall \in CallRecord /\ FreshCall.at = "idle" /\ FreshCall.result = None
        /\ FreshCall.of = NoCall /\ FreshCall.before = {} /\ FreshCall.latest = Miss
        /\ FreshCall.loaded = None /\ FreshCall.blind = FALSE
    BY CacheConstants DEF CacheConstants, FreshCall, CallRecord, Phase, Writeless, Entry,
       Miss, Unread, None
  <2> HIDE DEF FreshCall
  <2>2. Knows(write, revision, turn, FreshCall)
    BY <2>1 DEF Knows, Reading, Flying, ReadSound, FoundSound, LatestSound, LoadedSound,
       SettlingSound, Untouched
  <2>3. call \in [Calls -> CallRecord]
    BY <2>1 DEF Init
  <2>4. FlightInv
    BY <1>2, <2>1 DEF Init, FlightInv, Flying
  <2> QED BY <1>2, <2>1, <2>2, <2>3, <2>4 DEF CallsInv, ResultSound
<1>5. FlushInv(turn)
  BY <1>2 DEF Init, FlushInv, FlushRecord
<1>6. StopInv
  BY DEF Init, StopInv
<1> QED BY <1>3, <1>4, <1>5, <1>6 DEF CacheInv

\* Some order of the mutations explains the state.
CacheInvariant == \E turn : CacheInv(turn)

\* The invariant the rest follows from.
THEOREM CacheIsSound == Spec => []CacheInvariant
<1> USE CacheConstants
<1>1. Init => CacheInvariant
  BY InitHolds DEF CacheInvariant
<1>2. CacheInvariant /\ [Next]_vars => CacheInvariant'
  BY NextStep DEF CacheInvariant
<1> QED BY <1>1, <1>2, PTL DEF Spec

\* Whatever loads and mutations overlap, no entry is older than a mutation of its key
\* that has taken effect.
THEOREM NothingIsResurrected == Spec => []NoResurrection
<1>1. CacheInvariant => NoResurrection
  BY DEF CacheInvariant, CacheInv, StoreInv
<1> QED BY <1>1, CacheIsSound, PTL

\* A get or a load reflects the mutations accepted before it.
THEOREM ReadsReflectMutations == Spec => []ReadsSeeAccepted
<1>1. CacheInvariant => ReadsSeeAccepted
  BY DEF CacheInvariant, CacheInv, CallsInv, ResultSound, SeesIn, Sees, Reflects,
     ReadsSeeAccepted, Effective, KeyOf
<1> QED BY <1>1, CacheIsSound, PTL

\* The runtime closes when nothing is at work and everything mutated was flushed.
THEOREM NothingIsLeftAtClose == Spec => []ClosedAfterFlush
<1>1. CacheInvariant => ClosedAfterFlush
  BY DEF CacheInvariant, CacheInv, StopInv, ClosedAfterFlush
<1> QED BY <1>1, CacheIsSound, PTL

\* Every variable stays in its type.
THEOREM CacheTypesHold == Spec => []TypeOK
<1> USE CacheConstants
<1> DEFINE FaultsBounded == faults \in 0 .. MaxFaults
<1>1. Init => FaultsBounded
  BY DEF Init, CacheConstants
<1>2. FaultsBounded /\ [Next]_vars => FaultsBounded'
  <2> SUFFICES ASSUME FaultsBounded, [Next]_vars, faults' # faults PROVE FaultsBounded'
    OBVIOUS
  <2>1. \/ Closes \/ \E ok \in BOOLEAN : FlushSettles(ok)
    BY DEF Next, BackendStep, FinalizationStep, Method, Get, Load, Set, Delete, Invalidate,
       Call, Mutate, FlushCalled, GetReturns, GetFails, LoadStep, Read, Settles, TimesOut,
       LookupReturns, LookupFails, RecheckReturns, RecheckFails, LoaderReads, LoaderReturns,
       LoaderFails, RereadReturns, RereadFails, TurnsStale, Leaves, BarrierPassed,
       BackendSettled, ShutdownCalled, Drained, RequestsSettled, LastFlush, vars, ending
  <2> QED BY <2>1 DEF Closes, FlushSettles, CacheConstants
<1>3. CacheInvariant /\ FaultsBounded => TypeOK
  BY DEF CacheInvariant, CacheInv, StoreInv, StoreTyped, CallsInv, FlightInv, StopInv,
     TypeOK
<1> HIDE DEF FaultsBounded
<1> QED BY <1>1, <1>2, <1>3, CacheIsSound, PTL DEF Spec

--------------------------------------------------------------------------------
(* The fallback of a failed load.                                          *)

\* No call falls back.
NoFall == \A c \in Calls : call'[c].fallback \in {FALSE, call[c].fallback}

\* A call that goes on without falling back.
LEMMA OneNoFall ==
  ASSUME call \in [Calls -> CallRecord], NEW c \in Calls, NEW d,
         call' = [call EXCEPT ![c] = d],
         d.fallback \in {FALSE, call[c].fallback}
  PROVE  NoFall
BY DEF NoFall

\* Nor do calls that end with a value, or without.
LEMMA ReturnsFallNot ==
  ASSUME call \in [Calls -> CallRecord], NEW c \in Calls, NEW version,
         Returns(c, version) \/ Lands(c, version)
  PROVE  NoFall
<1>1. CASE Returns(c, version)
  BY <1>1, DoneIsDone, OneNoFall DEF Returns
<1>2. CASE Lands(c, version)
  BY <1>2, DoneIsDone DEF Lands, NoFall
<1> QED BY <1>1, <1>2

\* Nor one that departs.
LEMMA DepartsFallNot ==
  ASSUME call \in [Calls -> CallRecord], NEW c \in Calls, NEW found, NEW again \in BOOLEAN,
         Departs(c, found, again)
  PROVE  NoFall
<1> DEFINE k == KeyOf(c)
           a == [call[c] EXCEPT !.at = "recheck", !.key = k, !.deps = Dependencies({k}),
                                !.answer = Unread, !.asked = Accepted]
           d == [a EXCEPT !.found = found, !.seen = revision.of[k], !.missed = Missed(c)]
           j == [d EXCEPT !.at = "joined", !.deps = {}, !.asked = {}, !.of = flight[k]]
           l == [d EXCEPT !.at = "loading", !.deps = {}, !.answer = Unread,
                          !.asked = {}, !.base = revision.of[k]]
<1>1. \/ call' = [call EXCEPT ![c] = j] \/ call' = [call EXCEPT ![c] = d]
      \/ call' = [call EXCEPT ![c] = l]
  BY DEF Departs, Asks, Loading
<1>2. /\ d.fallback = call[c].fallback /\ j.fallback = call[c].fallback
      /\ l.fallback = call[c].fallback
  BY DEF CallRecord
<1> HIDE DEF j, d, l
<1> QED BY <1>1, <1>2, OneNoFall

\* Only the failure of a load makes calls fall back.
LEMMA OthersFallNot ==
  ASSUME call \in [Calls -> CallRecord], NEW c \in Calls,
         \/ Method(c) \/ GetReturns(c) \/ GetFails(c)
         \/ Read(c) \/ Settles(c) \/ TimesOut(c)
         \/ LookupReturns(c) \/ LookupFails(c) \/ RecheckReturns(c) \/ RecheckFails(c)
         \/ LoaderReads(c) \/ LoaderReturns(c) \/ BarrierPassed(c) \/ BackendSettled(c)
  PROVE  NoFall
<1>1. call[c] \in CallRecord
  OBVIOUS
<1>2. CASE Method(c)
  <2>1. ASSUME NEW k \in Key, NEW phase, Call(c, k, phase) PROVE NoFall
    <3> DEFINE a == [call[c] EXCEPT !.at = phase, !.key = k, !.deps = Dependencies({k}),
                                    !.answer = Unread, !.asked = Accepted]
               d == [a EXCEPT !.before = Accepted]
    <3>1. call' = [call EXCEPT ![c] = d]
      BY <2>1 DEF Call, Asks
    <3>2. d.fallback = call[c].fallback
      BY <1>1 DEF CallRecord
    <3> HIDE DEF d
    <3> QED BY <3>1, <3>2, OneNoFall
  <2>2. ASSUME NEW K, NEW broad \in BOOLEAN, NEW version, Mutate(c, K, broad, version)
        PROVE  NoFall
    <3>1. call' = [call EXCEPT ![c].at = "mutating"] \/ Returns(c, None)
      BY <2>2 DEF Mutate
    <3>2. [call[c] EXCEPT !.at = "mutating"].fallback = call[c].fallback
      BY <1>1 DEF CallRecord
    <3> QED BY <3>1, <3>2, ReturnsFallNot, OneNoFall
  <2>3. CASE \E k \in Key : Set(c, k) \/ Delete(c, k)
    <3>1. PICK K, version : Mutate(c, K, FALSE, version)
      BY <2>3 DEF Set, Delete
    <3>2. PICK broad \in BOOLEAN : broad = FALSE /\ Mutate(c, K, broad, version)
      BY <3>1, Zenon
    <3> QED BY <2>2, <3>2
  <2>4. CASE Invalidate(c)
    <3>1. PICK broad \in BOOLEAN : broad = TRUE /\ Mutate(c, Key, broad, None)
      BY <2>4, Zenon DEF Invalidate
    <3> QED BY <2>2, <3>1
  <2>5. CASE FlushCalled(c)
    <3>1. [call[c] EXCEPT !.at = "barrier", !.deps = Pending, !.before = Accepted].fallback
            = call[c].fallback
      BY <1>1 DEF CallRecord
    <3>2. call' = [call EXCEPT ![c] =
            [call[c] EXCEPT !.at = "barrier", !.deps = Pending, !.before = Accepted]]
      BY <2>5 DEF FlushCalled
    <3> QED BY <3>1, <3>2, OneNoFall
  <2> QED BY <1>2, <2>1, <2>3, <2>4, <2>5 DEF Method, Get, Load
<1>3. CASE GetReturns(c) \/ GetFails(c)
  BY <1>3, ReturnsFallNot DEF GetReturns, GetFails
<1>4. CASE LookupReturns(c) \/ LookupFails(c)
  BY <1>4, ReturnsFallNot, DepartsFallNot DEF LookupReturns, LookupFails
<1>5. CASE Settles(c) \/ TimesOut(c)
  <2>1. Resumes(c)
    BY <1>5 DEF Settles, TimesOut
  <2>2. CASE UNCHANGED call
    BY <2>2 DEF NoFall
  <2> QED BY <2>1, <2>2, ReturnsFallNot DEF Resumes
<1>6. CASE RecheckReturns(c) \/ RecheckFails(c)
  <2> DEFINE k == KeyOf(c)
             l == [call[c] EXCEPT !.at = "loading", !.deps = {}, !.answer = Unread,
                                  !.asked = {}, !.base = revision.of[k]]
             m == [l EXCEPT !.latest = call[c].answer, !.missed = Missed(c)]
             b == [l EXCEPT !.blind = TRUE]
  <2>1. \/ Lands(c, call[c].answer.version)
        \/ call' = [call EXCEPT ![c] = m] \/ call' = [call EXCEPT ![c] = b]
    BY <1>6 DEF RecheckReturns, RecheckFails, Loading
  <2>2. m.fallback = call[c].fallback /\ b.fallback = call[c].fallback
    BY <1>1 DEF CallRecord
  <2> HIDE DEF m, b
  <2> QED BY <2>1, <2>2, ReturnsFallNot, OneNoFall
<1>7. CASE Read(c) \/ LoaderReads(c) \/ BarrierPassed(c)
  <2> DEFINE r == [call[c] EXCEPT !.answer = entry[KeyOf(c)]]
             l == [call[c] EXCEPT !.loaded = source]
             b == [call[c] EXCEPT !.at = "settling", !.deps = Raw, !.seen = revision.all]
  <2>1. \/ call' = [call EXCEPT ![c] = r] \/ call' = [call EXCEPT ![c] = l]
        \/ call' = [call EXCEPT ![c] = b]
    BY <1>7 DEF Read, LoaderReads, BarrierPassed
  <2>2. /\ r.fallback = call[c].fallback /\ l.fallback = call[c].fallback
        /\ b.fallback = call[c].fallback
    BY <1>1 DEF CallRecord
  <2> HIDE DEF r, l, b
  <2> QED BY <2>1, <2>2, OneNoFall
<1>8. CASE LoaderReturns(c)
  <2>1. Lands(c, call[c].loaded) \/ call' = [call EXCEPT ![c].at = "saving"]
    BY <1>8 DEF LoaderReturns
  <2>2. [call[c] EXCEPT !.at = "saving"].fallback = call[c].fallback
    BY <1>1 DEF CallRecord
  <2> QED BY <2>1, <2>2, ReturnsFallNot, OneNoFall
<1>9. CASE BackendSettled(c)
  <2>1. \/ call' = [call EXCEPT ![c].at = "flushing"]
        \/ call' = [call EXCEPT ![c] = Flushed(call[c])]
    BY <1>9 DEF BackendSettled
  <2>2. [call[c] EXCEPT !.at = "flushing"].fallback = call[c].fallback
    BY <1>1 DEF CallRecord
  <2>3. Flushed(call[c]).fallback = FALSE
    BY DEF Flushed, Over, FreshCall
  <2> QED BY <2>1, <2>2, <2>3, OneNoFall
<1> QED BY <1>2, <1>3, <1>4, <1>5, <1>6, <1>7, <1>8, <1>9

\* What a passenger falls back on reflects all that has taken effect, except what it or
\* the owner of its flight may have missed.
LEMMA FallbackReflects ==
  ASSUME CacheConstants, NEW turn, StoreInv(turn), CallsInv(turn),
         NEW o \in Calls, call[o].at \in {"loading", "reread"}, NEW current \in Entry,
         \/ current = Miss
         \/ call[o].at = "loading" /\ Unchanged(o) /\ current = call[o].latest
         \/ Answered(o, "reread") /\ current = call[o].answer,
         NEW c \in Passengers(o), NEW v, v = FallbackOf(o, c, current), v # Miss
  PROVE  /\ KeyOf(c) = KeyOf(o) /\ KeyOf(c) \in Key
         /\ Reflects(write, v.version,
                     Accepted \ (Overlapping(c) \cup Overlapping(o)), KeyOf(c))
<1>1. /\ Knows(write, revision, turn, call[o]) /\ call[o] \in CallRecord /\ c \in Calls
      /\ Knows(write, revision, turn, call[c]) /\ call[c] \in CallRecord
      /\ Accepted = AcceptedIn(write) /\ call[o].at \in Flying
      /\ c # o => call[c].at = "joined" /\ call[c].of = o
  BY AcceptedFacts DEF CallsInv, Passengers, At, Flying
<1>2. KeyOf(c) = KeyOf(o) /\ KeyOf(c) = call[c].key /\ KeyOf(o) = call[o].key
        /\ KeyOf(c) \in Key
  <2>1. call[o].key \in Key /\ flight[call[o].key] = o
    BY <1>1 DEF CallsInv, FlightInv, Knows
  <2>2. c # o => call[c].key \in Key /\ flight[call[c].key] = o
    BY <1>1 DEF CallsInv, FlightInv, Knows
  <2>3. \A k \in Key : flight[k] = o => k = call[o].key
    BY CacheConstants DEF CallsInv, FlightInv, CacheConstants
  <2> QED BY <2>1, <2>2, <2>3 DEF KeyOf
<1>3. /\ call[o].missed \subseteq Overlapping(o) /\ call[c].missed \subseteq Overlapping(c)
      /\ At(o, "reread") => Accepted \ call[o].asked \subseteq Overlapping(o)
  BY DEF Overlapping, Missed
<1>4. CASE v = current /\ call[o].at = "loading" /\ Unchanged(o) /\ current = call[o].latest
  <2>1. Reflects(write, v.version, AcceptedIn(write) \ call[o].missed, call[o].key)
    BY <1>1, <1>2, <1>4 DEF Knows, LatestSound, Unchanged
  <2> QED BY <1>1, <1>2, <1>3, <2>1 DEF Reflects
<1>5. CASE v = current /\ Answered(o, "reread") /\ current = call[o].answer
  <2>1. v.version # None => Reflects(write, v.version, call[o].asked, call[o].key)
    BY <1>1, <1>5 DEF Knows, ReadSound, Reading, Answered, At
  <2>2. v.version # None
    BY <1>1, <1>5 DEF Knows, ReadSound, Reading, Answered, At
  <2>3. Accepted \ call[o].asked \subseteq Overlapping(o)
    BY <1>3, <1>5 DEF Answered
  <2> QED BY <1>2, <2>1, <2>2, <2>3 DEF Reflects
<1>6. CASE v = call[c].found /\ call[o].blind /\ revision.of[KeyOf(c)] = call[c].seen
  <2>1. call[c].at \in {"recheck", "joined", "loading", "reread"}
        /\ (call[c].at \in {"recheck", "joined"} \/ call[c].blind)
    BY <1>1, <1>6
  <2>2. Reflects(write, v.version, AcceptedIn(write) \ call[c].missed, call[c].key)
    BY <1>1, <1>2, <1>6, <2>1 DEF Knows, FoundSound
  <2> QED BY <1>1, <1>2, <1>3, <2>2 DEF Reflects
<1> QED BY <1>2, <1>4, <1>5, <1>6 DEF FallbackOf

\* While the tails of a key are empty, no mutation of it is under way.
LEMMA NobodyUnderWay ==
  ASSUME CacheConstants, NEW turn, StoreInv(turn), NEW k \in Key, ~IsPending(k)
  PROVE  UnderWay(k) = {}
<1>1. Covers(write, turn, {tails.broad, tails.key[k]}, Calls, k)
  BY DEF StoreInv, Ordered
<1>2. {tails.broad, tails.key[k]} = {NoCall} /\ NoCall \notin Calls
  BY CacheConstants DEF IsPending, CacheConstants
<1> QED BY <1>1, <1>2 DEF UnderWay, Unsettled, Covers

\* What the property says of a step.
SafeFallbacks ==
    \A c \in Calls : call'[c].fallback /\ ~call[c].fallback =>
      LET k == KeyOf(c)
          owner == IF call[c].of = NoCall THEN c ELSE call[c].of
          overlapped == Overlapping(c) \cup Overlapping(owner)
      IN \A m \in UnderWay(k) \cup (Effective(k) \ overlapped) :
           call'[c].result >= write[m].floor

\* A fallback is not older than any mutation that has taken effect or is under way.
LEMMA CrashIsSafe ==
  ASSUME CacheConstants, NEW turn, StoreInv(turn), CallsInv(turn),
         NEW o \in Calls, call[o].at \in {"loading", "reread"}, NEW current \in Entry,
         \/ current = Miss
         \/ call[o].at = "loading" /\ Unchanged(o) /\ current = call[o].latest
         \/ Answered(o, "reread") /\ current = call[o].answer,
         Crashes(o, current)
  PROVE  SafeFallbacks
<1> SUFFICES ASSUME NEW c \in Calls, call'[c].fallback, ~call[c].fallback
             PROVE  LET k == KeyOf(c)
                        owner == IF call[c].of = NoCall THEN c ELSE call[c].of
                        overlapped == Overlapping(c) \cup Overlapping(owner)
                    IN \A m \in UnderWay(k) \cup (Effective(k) \ overlapped) :
                         call'[c].result >= write[m].floor
  BY DEF SafeFallbacks
<1>1. call \in [Calls -> CallRecord] /\ NoCall \notin Calls
  BY CacheConstants DEF CallsInv, CacheConstants
<1>2. PICK v : v = FallbackOf(o, c, current)
  OBVIOUS
<1>3. /\ c \in Passengers(o) /\ ~IsPending(KeyOf(o)) /\ v # Miss
      /\ call'[c].result = v.version
  <2>1. \/ c \notin Passengers(o) /\ call'[c] = call[c]
        \/ c \in Passengers(o) /\ call'[c].result = None /\ call'[c].fallback = FALSE
        \/ /\ c \in Passengers(o) /\ ~IsPending(KeyOf(o))
           /\ FallbackOf(o, c, current) # Miss
           /\ call'[c].result = FallbackOf(o, c, current).version
    BY <1>1, CrashForm, ZenonT(60)
  <2> QED BY <1>2, <2>1
<1>4. /\ KeyOf(c) = KeyOf(o) /\ KeyOf(c) \in Key
      /\ Reflects(write, v.version,
                  Accepted \ (Overlapping(c) \cup Overlapping(o)), KeyOf(c))
  BY <1>2, <1>3, FallbackReflects
<1>5. UnderWay(KeyOf(c)) = {}
  BY <1>3, <1>4, NobodyUnderWay
<1>6. (IF call[c].of = NoCall THEN c ELSE call[c].of) = o
  <2>1. call[c].of = NoCall \/ call[c].of = o
    BY <1>3 DEF Passengers, CallsInv, Knows, Flying
  <2>2. call[c].of = NoCall => c = o
    BY <1>1, <1>3 DEF Passengers
  <2> QED BY <2>1, <2>2
<1>7. \A m \in Effective(KeyOf(c)) \ (Overlapping(c) \cup Overlapping(o)) :
         v.version >= write[m].floor
  BY <1>4 DEF Effective, Reflects
<1> QED BY <1>3, <1>5, <1>6, <1>7

\* Every step makes fallbacks that are safe, if any.
LEMMA FallbackStep ==
  ASSUME CacheConstants, NEW turn, CacheInv(turn), [Next]_vars
  PROVE  SafeFallbacks
<1>1. StoreInv(turn) /\ CallsInv(turn) /\ call \in [Calls -> CallRecord]
  BY DEF CacheInv, CallsInv
<1>2. ASSUME NoFall PROVE SafeFallbacks
  BY <1>2 DEF NoFall, SafeFallbacks
<1>3. ASSUME NEW o \in Calls, LoaderFails(o) \/ RereadReturns(o) \/ RereadFails(o)
      PROVE  SafeFallbacks
  <2>1. /\ call[o] \in CallRecord /\ call[o].latest \in Entry /\ call[o].answer \in Entry
        /\ Miss \in Entry /\ call[o].at \in {"loading", "reread"}
    BY <1>1, <1>3 DEF CallRecord, Miss, Entry, None, LoaderFails, RereadReturns,
       RereadFails, Answered, At
  <2>2. ASSUME NEW current \in Entry, Crashes(o, current),
               \/ current = Miss
               \/ call[o].at = "loading" /\ Unchanged(o) /\ current = call[o].latest
               \/ Answered(o, "reread") /\ current = call[o].answer
        PROVE  SafeFallbacks
    BY <1>1, <2>1, <2>2, CrashIsSafe
  <2>3. CASE LoaderFails(o) /\ Unchanged(o)
    BY <2>1, <2>2, <2>3 DEF LoaderFails, At
  <2>4. CASE LoaderFails(o) /\ ~Unchanged(o)
    <3>1. call' = [call EXCEPT ![o] = Asks(o, KeyOf(o), "reread")]
      BY <2>4 DEF LoaderFails
    <3>2. Asks(o, KeyOf(o), "reread").fallback = call[o].fallback
      BY <2>1 DEF Asks, CallRecord
    <3> QED BY <1>1, <1>2, <3>1, <3>2, OneNoFall
  <2>5. CASE RereadReturns(o) \/ RereadFails(o)
    BY <2>1, <2>2, <2>5 DEF RereadReturns, RereadFails
  <2> QED BY <1>3, <2>3, <2>4, <2>5
<1>4. ASSUME NEW c \in Calls,
         \/ Method(c) \/ GetReturns(c) \/ GetFails(c)
         \/ Read(c) \/ Settles(c) \/ TimesOut(c)
         \/ LookupReturns(c) \/ LookupFails(c) \/ RecheckReturns(c) \/ RecheckFails(c)
         \/ LoaderReads(c) \/ LoaderReturns(c) \/ BarrierPassed(c) \/ BackendSettled(c)
      PROVE  SafeFallbacks
  BY <1>1, <1>2, <1>4, OthersFallNot
<1>5. ASSUME NEW ok \in BOOLEAN, FlushSettles(ok) PROVE SafeFallbacks
  <2>1. \A d \in Calls : Flushed(call[d]).fallback = FALSE /\ Over("done").fallback = FALSE
    BY DEF Flushed, Over, FreshCall
  <2>2. NoFall
    BY <1>5, <2>1 DEF FlushSettles, NoFall
  <2> QED BY <1>2, <2>2
<1>6. ASSUME UNCHANGED call PROVE SafeFallbacks
  BY <1>2, <1>6 DEF NoFall
<1>7. ASSUME \E k \in Key : TurnsStale(k) \/ Leaves(k) PROVE SafeFallbacks
  BY <1>6, <1>7 DEF TurnsStale, Leaves
<1>8. ASSUME ShutdownCalled \/ Drained \/ RequestsSettled \/ LastFlush \/ Closes
      PROVE  SafeFallbacks
  BY <1>6, <1>8 DEF ShutdownCalled, Drained, RequestsSettled, LastFlush, Closes
<1>9. CASE UNCHANGED vars
  BY <1>6, <1>9 DEF vars
<1> QED BY <1>3, <1>4, <1>5, <1>7, <1>8, <1>9 DEF Next, LoadStep, BackendStep,
           FinalizationStep

\* A fallback served when the source fails is not older than what has taken effect or is
\* under way, save for what overlapped the look it comes from.
THEOREM FallbacksAreSafe == Spec => FallbackIsSafe
<1> USE CacheConstants
<1>1. CacheInvariant /\ [Next]_vars =>
        [\A c \in Calls : call'[c].fallback /\ ~call[c].fallback =>
           LET k == KeyOf(c)
               owner == IF call[c].of = NoCall THEN c ELSE call[c].of
           IN \A m \in UnderWay(k) \cup (Effective(k) \ (Overlapping(c) \cup Overlapping(owner))) :
                call'[c].result >= write[m].floor]_vars
  BY FallbackStep DEF CacheInvariant, SafeFallbacks
<1> QED BY <1>1, CacheIsSound, PTL DEF Spec, FallbackIsSafe
================================================================================
