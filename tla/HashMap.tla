------------------------------ MODULE HashMap ------------------------------
(***************************************************************************)
(* The interpreter's own hash map (map.go), used for the key types the     *)
(* host's map cannot compare as the target program would: interfaces,      *)
(* arrays and structs.  A host map leads from a hash to a linked list of   *)
(* entries.  A range over the map walks the host map and, inside a bucket, *)
(* the list, with the program free to change the map between two steps.    *)
(*                                                                         *)
(* An entry is an address: its place in the sequence `entry'.  Addresses   *)
(* are not reused, so an entry the iterator still points at stays readable *)
(* after it was unlinked, as the host's garbage collector guarantees.      *)
(***************************************************************************)
EXTENDS Naturals, Sequences, FiniteSets

CONSTANTS
  Keys,        \* keys, as the program writes them (0.0 and -0.0 are two)
  Values,
  HashOf,      \* [Keys -> hash], the hash function of value.go
  ClassOf,     \* [Keys -> class]: keys of one class are equal
  NaNs,        \* the keys that are not equal to themselves
  MaxEntries   \* bound on the entries allocated

\* hashable.eq
Eq(k, l) == k \notin NaNs /\ l \notin NaNs /\ ClassOf[k] = ClassOf[l]

Hashes == {HashOf[k] : k \in Keys}

\* hash()'s comment: equals(x, y) => hash(x) = hash(y).
ASSUME HashMapAssumption ==
  /\ NaNs \subseteq Keys
  /\ MaxEntries \in Nat
  /\ \A k, l \in Keys : Eq(k, l) => HashOf[k] = HashOf[l]

Nil == 0
Ids == 1 .. MaxEntries

VARIABLES
  made,       \* FALSE for the nil map
  table,      \* hashmap.table: from the hashes inserted so far to the head of a list
  entry,      \* the entries allocated so far
  length,     \* hashmap.length
  ranging,    \* whether a range is under way
  cur,        \* hashmapIter.cur
  due,        \* host iterator: buckets it must still come to
  visited,    \* host iterator: buckets it has been to
  answer,     \* (history) what the last operation answered
  produced,   \* (history) the entries this range has produced
  steady,     \* (history) the entries present since this range began
  seen        \* (history) the entries present at any time since this range began

mapVars == <<made, table, entry, length>>
iterVars == <<ranging, cur, due, visited, produced, steady, seen>>
vars == <<mapVars, iterVars, answer>>

-----------------------------------------------------------------------------
First(h) == IF h \in DOMAIN table THEN table[h] ELSE Nil

\* The entries a walk from p meets.  A new entry points at an older one.
WalkFrom(p) ==
  LET walk[q \in 0 .. Len(entry)] ==
        IF q = Nil THEN {} ELSE {q} \cup walk[entry[q].next]
  IN walk[p]

Live == UNION {WalkFrom(table[h]) : h \in DOMAIN table}

\* The first entry whose key eq()s k, or Nil.
Find(k) ==
  LET find[q \in 0 .. Len(entry)] ==
        IF q = Nil \/ Eq(k, entry[q].key) THEN q ELSE find[entry[q].next]
  IN find[First(HashOf[k])]

Init ==
  /\ made = FALSE /\ table = <<>> /\ entry = <<>> /\ length = 0
  /\ ranging = FALSE /\ cur = Nil /\ due = {} /\ visited = {}
  /\ answer = <<"none">>
  /\ produced = <<>> /\ steady = {} /\ seen = {}

\* makeMap
MakeMap ==
  /\ ~made
  /\ ~ranging
  /\ made' = TRUE
  /\ UNCHANGED <<table, entry, length, iterVars, answer>>

\* The history of a range: entries that went and came.
Remember ==
  /\ steady' = steady \cap Live'
  /\ seen' = IF ranging THEN seen \cup Live' ELSE seen
  /\ UNCHANGED <<ranging, cur, due, visited, produced>>

\* Mutant: the new key replaces the old one.
InsertPresentKey(k, v) ==
  /\ made
  /\ Find(k) # Nil
  /\ entry' = [entry EXCEPT ![Find(k)].value = v, ![Find(k)].key = k]
  /\ answer' = <<"done">>
  /\ UNCHANGED <<made, table, length, iterVars>>

\* hashmap.insert of a key that is there: the key stays, the value changes.
InsertPresent(k, v) ==
  /\ made
  /\ Find(k) # Nil
  /\ entry' = [entry EXCEPT ![Find(k)].value = v]
  /\ answer' = <<"done">>
  /\ UNCHANGED <<made, table, length, iterVars>>

\* hashmap.insert of a new key: a new entry at the head of the list.
InsertNew(k, v) ==
  /\ made
  /\ Find(k) = Nil
  /\ Len(entry) < MaxEntries
  /\ LET h == HashOf[k]
         p == Len(entry) + 1
     IN /\ entry' = Append(entry, [key |-> k, value |-> v, next |-> First(h)])
        /\ table' = [g \in DOMAIN table \cup {h} |-> IF g = h THEN p ELSE table[g]]
  /\ length' = length + 1
  /\ answer' = <<"done">>
  /\ Remember
  /\ UNCHANGED made

\* hashmap.insert into the nil map: the host panics on m.table.
InsertNil ==
  /\ ~made
  /\ answer' = <<"panic">>
  /\ UNCHANGED <<mapVars, iterVars>>

\* Mutant: the bucket begins at the successor wherever the entry was found.
DeleteDropsFront(k) ==
  /\ LET e == Find(k)
     IN IF e = Nil
        THEN UNCHANGED <<table, entry, length>>
        ELSE /\ table' = [table EXCEPT ![HashOf[k]] = entry[e].next]
             /\ length' = length - 1
             /\ UNCHANGED entry
  /\ answer' = <<"done">>
  /\ Remember
  /\ UNCHANGED made

\* hashmap.delete: the list is joined around the entry, or the bucket now begins
\* at its successor; a bucket that becomes empty stays in the table.
Delete(k) ==
  /\ LET e == Find(k)
         h == HashOf[k]
     IN \/ /\ e # Nil
           /\ e = First(h)
           /\ table' = [table EXCEPT ![h] = entry[e].next]
           /\ length' = length - 1
           /\ UNCHANGED entry
        \/ /\ e # Nil
           /\ e # First(h)
           /\ \E prev \in WalkFrom(First(h)) :
                /\ entry[prev].next = e
                /\ entry' = [entry EXCEPT ![prev].next = entry[e].next]
           /\ length' = length - 1
           /\ UNCHANGED table
        \/ /\ e = Nil
           /\ UNCHANGED <<table, entry, length>>
  /\ answer' = <<"done">>
  /\ Remember
  /\ UNCHANGED made

\* hashmap.lookup
Lookup(k) ==
  /\ answer' = IF Find(k) = Nil THEN <<"missing">> ELSE <<"found", entry[Find(k)].value>>
  /\ UNCHANGED <<mapVars, iterVars>>

\* The range statement: an iterator over entries(), which is empty for the nil map.
BeginRange ==
  /\ ~ranging
  /\ ranging' = TRUE
  /\ cur' = Nil
  /\ due' = DOMAIN table
  /\ visited' = {}
  /\ produced' = <<>>
  /\ steady' = Live
  /\ seen' = Live
  /\ UNCHANGED <<mapVars, answer>>

\* The host's MapIter.Next: it comes to every bucket that was there when the range
\* began, and to a bucket that came later perhaps.  next() skips empty buckets.
Buckets == DOMAIN table \ visited
Empty == {h \in Buckets : table[h] = Nil}

\* Mutant: the rest of the list is forgotten.
NextInBucketOnce ==
  /\ ranging
  /\ cur # Nil
  /\ produced' = Append(produced, cur)
  /\ cur' = Nil
  /\ UNCHANGED <<mapVars, answer, ranging, due, visited, steady, seen>>

\* hashmapIter.next with an entry in hand.
NextInBucket ==
  /\ ranging
  /\ cur # Nil
  /\ produced' = Append(produced, cur)
  /\ cur' = entry[cur].next
  /\ UNCHANGED <<mapVars, answer, ranging, due, visited, steady, seen>>

\* Mutant: the head of the bucket is kept for the next call.
NextBucketPrefetch ==
  /\ ranging
  /\ cur = Nil
  /\ \E skipped \in SUBSET Empty, h \in Buckets \ Empty :
       /\ visited' = visited \cup skipped \cup {h}
       /\ due' = due \ visited'
       /\ cur' = table[h]
  /\ UNCHANGED <<mapVars, answer, ranging, produced, steady, seen>>

\* Mutant: the bucket is not noted as visited.
NextBucketAgain ==
  /\ ranging
  /\ cur = Nil
  /\ Len(produced) < 2 * MaxEntries
  /\ \E skipped \in SUBSET Empty, h \in Buckets \ Empty :
       /\ visited' = visited \cup skipped
       /\ due' = due \ {h}
       /\ produced' = Append(produced, table[h])
       /\ cur' = entry[table[h]].next
  /\ UNCHANGED <<mapVars, answer, ranging, steady, seen>>

\* hashmapIter.next that goes on to another bucket.
NextBucket ==
  /\ ranging
  /\ cur = Nil
  /\ \E skipped \in SUBSET Empty, h \in Buckets \ Empty :
       /\ visited' = visited \cup skipped \cup {h}
       /\ due' = due \ visited'
       /\ produced' = Append(produced, table[h])
       /\ cur' = entry[table[h]].next
  /\ UNCHANGED <<mapVars, answer, ranging, steady, seen>>

\* Mutant: an empty bucket left to visit keeps the range from ending.
EndRangeNoSkip(early) ==
  /\ ranging
  /\ early \/ (cur = Nil /\ due = {})
  /\ ranging' = FALSE
  /\ cur' = Nil
  /\ due' = {}
  /\ visited' = {}
  /\ produced' = <<>>
  /\ steady' = {}
  /\ seen' = {}
  /\ UNCHANGED <<mapVars, answer>>

\* hashmapIter.next at the end, or the program leaves the loop (early).
EndRange(early) ==
  /\ ranging
  /\ early \/ (cur = Nil /\ due \subseteq Empty)
  /\ ranging' = FALSE
  /\ cur' = Nil
  /\ due' = {}
  /\ visited' = {}
  /\ produced' = <<>>
  /\ steady' = {}
  /\ seen' = {}
  /\ UNCHANGED <<mapVars, answer>>

Next ==
  \/ MakeMap
  \/ InsertNil
  \/ \E k \in Keys : Delete(k) \/ Lookup(k)
  \/ \E k \in Keys, v \in Values : InsertPresent(k, v) \/ InsertNew(k, v)
  \/ BeginRange
  \/ NextInBucket
  \/ NextBucket
  \/ EndRange(TRUE)
  \/ EndRange(FALSE)

Spec == Init /\ [][Next]_vars
\* The program goes on calling next() once it has begun to range.
FairSpec == Spec /\ WF_vars(NextInBucket) /\ WF_vars(NextBucket \/ EndRange(FALSE))

-----------------------------------------------------------------------------
\* Properties -----------------------------------------------------------------

\* The shape of every variable.
TypeOK ==
  /\ made \in BOOLEAN
  /\ DOMAIN table \subseteq Hashes
  /\ \A h \in DOMAIN table : table[h] \in 0 .. Len(entry)
  /\ entry \in Seq([key : Keys, value : Values, next : 0 .. Len(entry)])
  /\ length \in Nat
  /\ cur \in 0 .. Len(entry)
  /\ due \subseteq Hashes /\ visited \subseteq Hashes
  /\ produced \in Seq(1 .. Len(entry))

\* Every list is finite, holds only keys of its own hash, shares no entry with
\* another and has no two equal keys; hashmap.length counts the entries of all of
\* them, whatever was unlinked from the head or the middle of a list.
ListsOK ==
  /\ \A p \in DOMAIN entry : entry[p].next < p
  /\ \A h \in DOMAIN table : \A p \in WalkFrom(table[h]) : HashOf[entry[p].key] = h
  /\ \A p, q \in Live : p # q => ~Eq(entry[p].key, entry[q].key)
  /\ length = Cardinality(Live)

\* A range produces no entry twice, though entries are unlinked from under it, and
\* none that was gone before the range began.
RangeOnce ==
  /\ \A i, j \in DOMAIN produced : i # j => produced[i] # produced[j]
  /\ \A i \in DOMAIN produced : produced[i] \in seen

\* A range that next() ends has produced every entry that was there all along.
RangeComplete ==
  [][ranging /\ ~ranging' /\ cur = Nil /\ due \subseteq Empty =>
       steady \subseteq {produced[i] : i \in DOMAIN produced}]_vars

\* next() reads the successor of an entry before the program runs the loop's body,
\* so it may produce an entry deleted meanwhile; but only as such a successor: the
\* entry with which it comes to a bucket is in the map at that moment.
RangeFresh ==
  [][produced' # produced /\ produced' # <<>> =>
       LET last == produced'[Len(produced')]
       IN \/ last \in Live
          \/ /\ produced # <<>>
             /\ HashOf[entry[produced[Len(produced)]].key] = HashOf[entry[last].key]]_vars

\* A range comes to its end, whatever the program does to the map meanwhile.
RangeEnds == ranging ~> ~ranging

GoMapSpec ==
  INSTANCE GoMap WITH
    assoc <- [p \in Live |-> [key |-> entry[p].key, value |-> entry[p].value]],
    count <- length,
    Equal <- {kl \in Keys \X Keys : Eq(kl[1], kl[2])}

\* To the program the buckets are a Go map: each operation does to the set of
\* associations, and answers, what GoMap says.
ImplementsGoMap == GoMapSpec!Spec
=============================================================================
