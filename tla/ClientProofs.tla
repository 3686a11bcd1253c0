---------------------------- MODULE ClientProofs ----------------------------
(***************************************************************************)
(* What the run `clients' checks of its two parts: of the requests that    *)
(* change documents, proved for any number of servers, requests and        *)
(* documents, for lock files and for advisory locks; and of the adapters   *)
(* that synchronise a transcript.                                          *)
(***************************************************************************)
EXTENDS SyncAdapters, DocumentRequests, WellFoundedInduction, SequenceTheorems, TLAPS

-----------------------------------------------------------------------------
(***************************************************************************)
(* The requests.  The argument is mutual exclusion first (Exclusion): who  *)
(* works on a document holds its lock, and who holds it works on it, has   *)
(* died at it, or could not write or remove the file.  Then the places (Placed): while a request appends, exactly *)
(* the leaves above the base it counted from are its own, because no other *)
(* request touches the document meanwhile.                                 *)
(***************************************************************************)

HandlerStages == {"off", "waiting", "blocked", "locked", "working", "done", "busy",
                  "refused", "failed", "died", "stuck"}
RequestKinds == {"none", "append", "index", "truncate", "time", "clear", "refused"}

LeafRecords == [place : Nat, by : Requests, timed : BOOLEAN]
HandlerRecords ==
  [at : HandlerStages, kind : RequestKinds, doc : Documents \cup {Nobody}, server : Hosts \cup {Nobody},
   units : Seq(BOOLEAN), committed : Nat, base : Nat, rest : SUBSET Documents,
   sawHolder : BOOLEAN]

RequestsTypeOK ==
  /\ DOMAIN documents \subseteq Documents
  /\ documents \in [DOMAIN documents -> BOOLEAN]
  /\ leaves \in [Documents -> SUBSET LeafRecords]
  /\ lockFile \in [Documents -> Requests \cup {Nobody}]
  /\ serving \subseteq Hosts
  /\ handler \in [Requests -> HandlerRecords]

\* no document is longer than some number: its rightmost leaf exists
Bounded == \A d \in Documents : \E n \in Nat : \A leaf \in leaves[d] : leaf.place <= n

\* a request that still has work to do is about a document
Aimed ==
  \A r \in Requests : handler[r].at \in {"waiting", "blocked", "locked", "working"} =>
    handler[r].doc \in Documents

\* the lock and the work go together
Exclusion ==
  /\ \A r \in Requests : handler[r].at \in {"locked", "working"} => lockFile[handler[r].doc] = r
  /\ \A d \in Documents : lockFile[d] # Nobody => HoldsIt(lockFile[d], d)

\* before it appends a request has written nothing
Fresh ==
  \A r \in Requests : handler[r].at \in {"off", "waiting", "blocked", "locked"} =>
    /\ handler[r].committed = 0
    /\ \A d \in Documents : \A leaf \in leaves[d] : leaf.by # r

\* what an appending request has written is what lies above its base
OwnTail(r) ==
  \A d \in Documents : \A leaf \in leaves[d] :
    /\ leaf.by = r => d = handler[r].doc
    /\ d = handler[r].doc =>
         /\ leaf.by = r <=> leaf.place > handler[r].base
         /\ leaf.place <= handler[r].base + handler[r].committed

Placed == \A r \in Requests : handler[r].at = "working" => OwnTail(r)

RequestsInv ==
  /\ RequestsTypeOK /\ Bounded /\ Aimed /\ Exclusion /\ Fresh /\ Placed
  /\ BatchesAreApart /\ BusyHasAHolder

-----------------------------------------------------------------------------
(* Numbers and records *)

\* A set of numbers that is not empty has a least one.
LEMMA LeastNat ==
  ASSUME NEW T \in SUBSET Nat, T # {}
  PROVE  \E x \in T : \A y \in T : x <= y
<1>1. PICK x \in T : \A y \in T : <<y, x>> \notin OpToRel(<, Nat)
  BY NatLessThanWellFounded, WFMin
<1>2. \A y \in T : ~(y < x)
  BY <1>1 DEF OpToRel
<1> QED BY <1>2

\* The rightmost leaf of a document is the last one, or none is there.
LEMMA RightmostIsLast ==
  ASSUME RequestsTypeOK, Bounded, NEW d \in Documents
  PROVE  /\ Rightmost(d) \in Nat
         /\ \A leaf \in leaves[d] : leaf.place <= Rightmost(d)
<1> DEFINE S == {0} \cup {leaf.place : leaf \in leaves[d]}
           Above == {n \in Nat : \A p \in S : p <= n}
<1>1. S \in SUBSET Nat /\ S # {}
  BY DEF RequestsTypeOK, LeafRecords
<1>2. Above \in SUBSET Nat /\ Above # {}
  <2>1. PICK n \in Nat : \A leaf \in leaves[d] : leaf.place <= n
    BY DEF Bounded
  <2>2. \A p \in S : p <= n
    BY <2>1
  <2>3. n \in Above
    BY <2>2
  <2> QED BY <2>3
<1>3. PICK n \in Above : \A m \in Above : n <= m
  <2> HIDE DEF Above
  <2> QED BY <1>2, LeastNat
<1>4. n \in S
  <2> SUFFICES ASSUME n \notin S PROVE FALSE
    OBVIOUS
  <2>1. n \in Nat /\ \A p \in S : p <= n /\ p # n
    BY <1>3
  <2>2. n # 0 /\ n - 1 \in Nat
    BY <2>1
  <2>3. \A p \in S : p <= n - 1
    BY <2>1, <1>1
  <2>4. n - 1 \in Above
    BY <2>2, <2>3
  <2> QED BY <2>2, <2>4, <1>3
<1>5. \A p \in S : n >= p
  BY <1>1, <1>3
<1>6. Max(S) \in S /\ \A p \in S : Max(S) >= p
  <2> HIDE DEF S
  <2> QED BY <1>4, <1>5 DEF Max
<1>7. Rightmost(d) = Max(S)
  BY DEF Rightmost
<1>8. \A leaf \in leaves[d] : leaf.place \in S
  OBVIOUS
<1> HIDE DEF S
<1> QED BY <1>1, <1>6, <1>7, <1>8

LEMMA NoRequestIsARequest == NoRequest \in HandlerRecords
BY DEF NoRequest, HandlerRecords, HandlerStages, RequestKinds

\* what the record of an ending request is
LEMMA EndingRecord ==
  ASSUME NEW q \in HandlerRecords, NEW at \in HandlerStages, NEW next, next = [q EXCEPT !.at = at]
  PROVE  /\ next \in HandlerRecords
         /\ next.at = at /\ next.doc = q.doc
         /\ next.committed = q.committed /\ next.sawHolder = q.sawHolder
BY DEF HandlerRecords

LEMMA RequestsStart == RequestsInit => RequestsInv
<1> SUFFICES ASSUME RequestsInit PROVE RequestsInv
  OBVIOUS
<1> USE DEF RequestsInit
<1>1. RequestsTypeOK
  BY NoRequestIsARequest DEF RequestsTypeOK
<1>2. Bounded /\ Aimed /\ Exclusion /\ Fresh /\ Placed
  BY DEF Bounded, Aimed, Exclusion, Fresh, Placed, NoRequest
<1>3. BatchesAreApart /\ BusyHasAHolder
  BY DEF BatchesAreApart, BusyHasAHolder, NoRequest
<1> QED BY <1>1, <1>2, <1>3 DEF RequestsInv

-----------------------------------------------------------------------------
(* Steps *)

\* A request that gives the lock back - because it is done, refused or has
\* failed, or to wait for the lock of its next document - after it has at
\* most deleted leaves.
LEMMA GivesBack ==
  ASSUME RequestsInv, NEW r \in Requests, NEW next \in HandlerRecords,
         handler[r].at \in {"locked", "working"},
         handler' = [handler EXCEPT ![r] = next],
         lockFile' = GivenBack(r),
         leaves' \in [Documents -> SUBSET LeafRecords],
         \A d \in Documents : leaves'[d] \subseteq leaves[d],
         DOMAIN documents' \subseteq Documents, documents' \in [DOMAIN documents' -> BOOLEAN],
         serving' = serving,
         next.sawHolder,
         \/ next.at \in {"done", "refused", "failed"}
         \/ /\ next.at = "waiting" /\ next.doc \in Documents /\ next.committed = 0
            /\ handler[r].at = "locked"
  PROVE  RequestsInv'
<1> DEFINE mine == handler[r].doc
<1>1. /\ RequestsTypeOK /\ handler \in [Requests -> HandlerRecords] /\ mine \in Documents
      /\ lockFile[mine] = r /\ r # Nobody
  BY RequestConstants DEF RequestsInv, RequestsTypeOK, RequestConstants, Aimed, Exclusion
<1>2. \A q \in Requests : handler'[q] = IF q = r THEN next ELSE handler[q]
  BY <1>1
<1>3. \A d \in Documents : lockFile'[d] = IF d = mine THEN Nobody ELSE lockFile[d]
  BY <1>1 DEF RequestsTypeOK, GivenBack
<1>4. RequestsTypeOK'
  BY <1>1 DEF RequestsTypeOK, GivenBack
<1>5. Bounded'
  BY DEF RequestsInv, Bounded
<1>6. Aimed'
  BY <1>2 DEF RequestsInv, Aimed
<1>7. Exclusion'
  <2>1. ASSUME NEW q \in Requests, handler'[q].at \in {"locked", "working"}
        PROVE  lockFile'[handler'[q].doc] = q
    <3>1. q # r /\ handler'[q] = handler[q]
      BY <1>2, <2>1
    <3>2. lockFile[handler[q].doc] = q /\ handler[q].doc \in Documents
      BY <2>1, <3>1 DEF RequestsInv, Exclusion, Aimed
    <3> QED BY <1>1, <1>3, <3>1, <3>2
  <2>2. ASSUME NEW d \in Documents, lockFile'[d] # Nobody
        PROVE  HoldsIt(lockFile[d], d)' /\ lockFile'[d] = lockFile[d]
    <3>1. d # mine /\ lockFile'[d] = lockFile[d]
      BY <1>3, <2>2
    <3>2. HoldsIt(lockFile[d], d) /\ lockFile[d] \in Requests
      BY <1>1, <2>2, <3>1 DEF RequestsInv, Exclusion, RequestsTypeOK
    <3>3. lockFile[d] # r
      BY <3>1, <3>2 DEF HoldsIt
    <3> QED BY <1>2, <3>1, <3>2, <3>3 DEF HoldsIt
  <2> QED BY <2>1, <2>2 DEF Exclusion, HoldsIt
<1>8. Fresh'
  BY <1>2 DEF RequestsInv, Fresh
<1>9. Placed'
  BY <1>2 DEF RequestsInv, Placed, OwnTail
<1>10. BatchesAreApart'
  BY DEF RequestsInv, BatchesAreApart
<1>11. BusyHasAHolder'
  BY <1>2 DEF RequestsInv, BusyHasAHolder
<1> QED BY <1>4, <1>5, <1>6, <1>7, <1>8, <1>9, <1>10, <1>11 DEF RequestsInv

\* A request that does not hold a lock arrives, waits, or is refused.
LEMMA Stands ==
  ASSUME RequestsInv, NEW r \in Requests, NEW next \in HandlerRecords,
         handler[r].at \in {"off", "waiting"},
         handler' = [handler EXCEPT ![r] = next],
         UNCHANGED <<documents, leaves, lockFile, serving>>,
         next.sawHolder, next.committed = 0,
         next.at \in {"waiting", "blocked", "refused", "done", "busy", "failed"},
         next.at \in {"waiting", "blocked"} => next.doc \in Documents
  PROVE  RequestsInv'
<1>1. \A q \in Requests : handler'[q] = IF q = r THEN next ELSE handler[q]
  BY DEF RequestsInv, RequestsTypeOK
<1>2. RequestsTypeOK' /\ Bounded'
  BY DEF RequestsInv, RequestsTypeOK, Bounded
<1>3. Aimed'
  BY <1>1 DEF RequestsInv, Aimed
<1>4. Exclusion'
  <2>1. ASSUME NEW d \in Documents, lockFile[d] # Nobody
        PROVE  HoldsIt(lockFile[d], d)'
    <3>1. HoldsIt(lockFile[d], d) /\ lockFile[d] \in Requests
      BY <2>1 DEF RequestsInv, Exclusion, RequestsTypeOK
    <3>2. lockFile[d] # r
      BY <3>1 DEF HoldsIt
    <3> QED BY <1>1, <3>1, <3>2 DEF HoldsIt
  <2>2. \A d \in Documents : lockFile'[d] # Nobody => HoldsIt(lockFile[d], d)'
    BY <2>1
  <2>3. \A q \in Requests : handler'[q].at \in {"locked", "working"} =>
          lockFile'[handler'[q].doc] = q
    BY <1>1 DEF RequestsInv, Exclusion
  <2> QED BY <2>2, <2>3 DEF Exclusion, HoldsIt
<1>5. Fresh'
  BY <1>1 DEF RequestsInv, Fresh
<1>6. Placed'
  BY <1>1 DEF RequestsInv, Placed, OwnTail
<1>7. BatchesAreApart' /\ BusyHasAHolder'
  BY <1>1 DEF RequestsInv, BatchesAreApart, BusyHasAHolder
<1> QED BY <1>2, <1>3, <1>4, <1>5, <1>6, <1>7 DEF RequestsInv

\* A request that finds the document free has its lock.
LEMMA HasLock ==
  ASSUME RequestsInv, NEW r \in Requests,
         handler[r].at \in {"waiting", "blocked"},
         lockFile[handler[r].doc] = Nobody,
         lockFile' = [lockFile EXCEPT ![handler[r].doc] = r],
         Goes(r, "locked"),
         UNCHANGED <<documents, leaves, serving>>
  PROVE  RequestsInv'
<1> DEFINE mine == handler[r].doc
<1>1. /\ RequestsTypeOK /\ handler \in [Requests -> HandlerRecords] /\ mine \in Documents
      /\ r # Nobody
  BY RequestConstants DEF RequestsInv, RequestsTypeOK, RequestConstants, Aimed
<1>2. \A q \in Requests : handler'[q] = IF q = r THEN [handler[r] EXCEPT !.at = "locked"]
                                                 ELSE handler[q]
  BY <1>1 DEF Goes
<1>3. \A d \in Documents : lockFile'[d] = IF d = mine THEN r ELSE lockFile[d]
  BY <1>1 DEF RequestsTypeOK
<1>4. [handler[r] EXCEPT !.at = "locked"] \in HandlerRecords
  <2>1. handler[r] \in HandlerRecords
    BY <1>1
  <2> QED BY <2>1 DEF HandlerRecords, HandlerStages
<1>5. RequestsTypeOK' /\ Bounded'
  BY <1>1, <1>4 DEF RequestsInv, RequestsTypeOK, Bounded, Goes
<1>6. /\ handler'[r].at = "locked" /\ handler'[r].doc = mine
      /\ handler'[r].committed = handler[r].committed
      /\ handler'[r].sawHolder = handler[r].sawHolder
  BY <1>1, <1>2 DEF HandlerRecords
<1>7. Aimed'
  BY <1>1, <1>2, <1>6 DEF RequestsInv, Aimed
<1>8. Exclusion'
  <2>1. ASSUME NEW q \in Requests, handler'[q].at \in {"locked", "working"}
        PROVE  lockFile'[handler'[q].doc] = q
    <3>1. CASE q = r
      BY <1>1, <1>3, <1>6, <3>1
    <3>2. CASE q # r
      <4>1. handler'[q] = handler[q] /\ lockFile[handler[q].doc] = q
            /\ handler[q].doc \in Documents /\ q # Nobody
        BY <1>2, <2>1, <3>2, RequestConstants
        DEF RequestsInv, Exclusion, Aimed, RequestConstants
      <4> QED BY <1>3, <4>1
    <3> QED BY <3>1, <3>2
  <2>2. ASSUME NEW d \in Documents, lockFile'[d] # Nobody
        PROVE  HoldsIt(lockFile[d], d)'
    <3>1. CASE d = mine
      BY <1>3, <1>6, <3>1 DEF HoldsIt
    <3>2. CASE d # mine
      <4>1. lockFile'[d] = lockFile[d] /\ HoldsIt(lockFile[d], d) /\ lockFile[d] \in Requests
        BY <1>1, <1>3, <2>2, <3>2 DEF RequestsInv, Exclusion, RequestsTypeOK
      <4>2. lockFile[d] # r
        BY <3>2, <4>1 DEF HoldsIt
      <4> QED BY <1>2, <4>1, <4>2 DEF HoldsIt
    <3> QED BY <3>1, <3>2
  <2> QED BY <2>1, <2>2 DEF Exclusion, HoldsIt
<1>9. Fresh'
  BY <1>2, <1>6 DEF RequestsInv, Fresh
<1>10. Placed'
  BY <1>2, <1>6 DEF RequestsInv, Placed, OwnTail
<1>11. BatchesAreApart' /\ BusyHasAHolder'
  BY <1>2, <1>6 DEF RequestsInv, BatchesAreApart, BusyHasAHolder
<1> QED BY <1>5, <1>7, <1>8, <1>9, <1>10, <1>11 DEF RequestsInv

LEMMA ArrivesKeeps ==
  ASSUME RequestsInv, NEW r \in Requests, NEW kind \in RequestKinds, NEW d \in Documents \cup {Nobody},
         NEW units \in Seq(BOOLEAN), NEW rest \in SUBSET Documents,
         NEW at \in {"waiting", "refused", "done"}, at = "waiting" => d \in Documents,
         Arrives(r, kind, d, units, rest, at)
  PROVE  RequestsInv'
<1>1. PICK s \in serving :
        /\ handler[r] = NoRequest
        /\ handler' = [handler EXCEPT ![r] =
             [NoRequest EXCEPT !.at = at, !.kind = kind, !.doc = d, !.server = s,
                               !.units = units, !.rest = rest]]
        /\ UNCHANGED <<documents, leaves, lockFile, serving>>
  BY DEF Arrives
<1> DEFINE next == [NoRequest EXCEPT !.at = at, !.kind = kind, !.doc = d, !.server = s,
                                     !.units = units, !.rest = rest]
<1>2. s \in Hosts
  BY <1>1 DEF RequestsInv, RequestsTypeOK
<1>3. handler[r].at = "off" /\ NoRequest.committed = 0 /\ NoRequest.sawHolder
  BY <1>1 DEF NoRequest
<1>4. at \in HandlerStages
  BY DEF HandlerStages
<1>5. next = [NoRequest EXCEPT !.at = at, !.kind = kind, !.doc = d, !.server = s,
                               !.units = units, !.rest = rest]
  OBVIOUS
<1>6. handler' = [handler EXCEPT ![r] = next]
  BY <1>1
<1> HIDE DEF next
<1>7. /\ next \in HandlerRecords /\ next.at = at /\ next.doc = d
      /\ next.committed = NoRequest.committed /\ next.sawHolder = NoRequest.sawHolder
  BY ONLY NoRequestIsARequest, <1>2, <1>4, <1>5, at \in HandlerStages, kind \in RequestKinds,
          d \in Documents \cup {Nobody}, units \in Seq(BOOLEAN), rest \in SUBSET Documents
  DEF HandlerRecords
<1> QED BY <1>1, <1>3, <1>6, <1>7, Stands

\* every request but the first of its kind
LEMMA ArrivalKeeps ==
  ASSUME RequestsInv, NEW r \in Requests, Arrival(r)
  PROVE  RequestsInv'
<1>1. ASSUME NEW d \in Documents, NEW n \in 1 .. MaxUnits, NEW units \in [1 .. n -> BOOLEAN],
             AppendText(r, d, units)
      PROVE  RequestsInv'
  <2>1. units \in Seq(BOOLEAN)
    BY <1>1
  <2> QED BY <1>1, <2>1, ArrivesKeeps DEF AppendText, RequestKinds
<1>2. <<FALSE>> \in Seq(BOOLEAN) /\ <<>> \in Seq(BOOLEAN)
  OBVIOUS
<1>3. ASSUME NEW d \in Documents,
             \/ IndexDocument(r, d) \/ TruncateDocument(r, d) \/ TruncateFromTime(r, d)
      PROVE  RequestsInv'
  <2>1. CASE IndexDocument(r, d)
    BY <1>2, <2>1, ArrivesKeeps DEF IndexDocument, RequestKinds
  <2>2. CASE TruncateDocument(r, d)
    BY <1>2, <2>2, ArrivesKeeps DEF TruncateDocument, RequestKinds
  <2>3. ASSUME Arrives(r, "time", d, <<>>, {}, "waiting") PROVE RequestsInv'
    BY <1>2, <2>3, ArrivesKeeps DEF RequestKinds
  <2>4. ASSUME Arrives(r, "refused", Nobody, <<>>, {}, "refused") PROVE RequestsInv'
    BY <1>2, <2>4, ArrivesKeeps DEF RequestKinds
  <2> QED BY <1>3, <2>1, <2>2, <2>3, <2>4 DEF TruncateFromTime
<1>4. ASSUME NEW named \in SUBSET Documents, ClearDocument(r, named)
      PROVE  RequestsInv'
  <2>1. CASE named = {}
    BY <1>2, <1>4, <2>1, ArrivesKeeps DEF ClearDocument, RequestKinds
  <2>2. CASE named # {}
    <3>1. PICK d \in named : Arrives(r, "clear", d, <<>>, named \ {d}, "waiting")
      BY <1>4, <2>2 DEF ClearDocument
    <3> QED BY <1>2, <3>1, ArrivesKeeps DEF RequestKinds
  <2> QED BY <2>1, <2>2
<1>5. DOMAIN documents \in SUBSET Documents
  BY DEF RequestsInv, RequestsTypeOK
<1> QED BY <1>1, <1>3, <1>4, <1>5 DEF Arrival

\* The record of a request that is stuck
LEMMA StuckRecord ==
  ASSUME NEW r \in Requests, RequestsTypeOK, handler[r].doc \in Documents, Stuck(r)
  PROVE  \E next \in HandlerRecords :
           /\ handler' = [handler EXCEPT ![r] = next]
           /\ next.at = "stuck" /\ next.doc = handler[r].doc /\ next.sawHolder
<1> DEFINE mine == handler[r].doc
           next == [NoRequest EXCEPT !.at = "stuck", !.doc = mine]
<1>1. handler' = [handler EXCEPT ![r] = next]
  BY DEF Stuck
<1>2. NoRequest.sawHolder
  BY DEF NoRequest
<1>3. next = [NoRequest EXCEPT !.at = "stuck", !.doc = mine] /\ mine \in Documents
  OBVIOUS
<1> HIDE DEF next, mine
<1>4. next \in HandlerRecords /\ next.at = "stuck" /\ next.doc = mine
      /\ next.sawHolder = NoRequest.sawHolder
  BY ONLY NoRequestIsARequest, <1>3 DEF HandlerRecords, HandlerStages
<1> QED BY <1>1, <1>2, <1>4 DEF mine

\* A request that ends without a way to remove its lock file, or to write it,
\* keeps the document; it has at most deleted leaves.
LEMMA StuckKeeps ==
  ASSUME RequestsInv, NEW r \in Requests, Stuck(r),
         handler[r].doc \in Documents,
         \/ handler[r].at \in {"locked", "working"} /\ lockFile' = lockFile
         \/ /\ handler[r].at = "waiting" /\ lockFile[handler[r].doc] = Nobody
            /\ lockFile' = [lockFile EXCEPT ![handler[r].doc] = r],
         leaves' \in [Documents -> SUBSET LeafRecords],
         \A d \in Documents : leaves'[d] \subseteq leaves[d],
         DOMAIN documents' \subseteq Documents, documents' \in [DOMAIN documents' -> BOOLEAN],
         serving' = serving
  PROVE  RequestsInv'
<1> DEFINE mine == handler[r].doc
<1>1. RequestsTypeOK /\ handler \in [Requests -> HandlerRecords] /\ r # Nobody
  BY RequestConstants DEF RequestsInv, RequestsTypeOK, RequestConstants
<1>2. PICK next \in HandlerRecords :
        /\ handler' = [handler EXCEPT ![r] = next]
        /\ next.at = "stuck" /\ next.doc = mine /\ next.sawHolder
  BY <1>1, StuckRecord
<1>3. \A q \in Requests : handler'[q] = IF q = r THEN next ELSE handler[q]
  BY <1>1, <1>2
<1>4. lockFile'[mine] = r /\ \A d \in Documents \ {mine} : lockFile'[d] = lockFile[d]
  BY <1>1 DEF RequestsTypeOK, RequestsInv, Exclusion
<1>5. lockFile' \in [Documents -> Requests \cup {Nobody}]
  BY <1>1 DEF RequestsTypeOK
<1>6. RequestsTypeOK'
  BY <1>1, <1>2, <1>5 DEF RequestsTypeOK
<1>7. Bounded'
  BY DEF RequestsInv, Bounded
<1>8. Aimed'
  BY <1>2, <1>3 DEF RequestsInv, Aimed
<1>9. Exclusion'
  <2>1. ASSUME NEW q \in Requests, handler'[q].at \in {"locked", "working"}
        PROVE  lockFile'[handler'[q].doc] = q
    <3>1. q # r /\ handler'[q] = handler[q]
      BY <1>2, <1>3, <2>1
    <3>2. lockFile[handler[q].doc] = q /\ handler[q].doc \in Documents /\ q # Nobody
      BY <2>1, <3>1, RequestConstants DEF RequestsInv, Exclusion, Aimed, RequestConstants
    <3>3. lockFile[mine] \in {r, Nobody}
      BY DEF RequestsInv, Exclusion
    <3> QED BY <1>4, <3>1, <3>2, <3>3
  <2>2. ASSUME NEW d \in Documents, lockFile'[d] # Nobody
        PROVE  HoldsIt(lockFile[d], d)'
    <3>1. CASE d = mine
      BY <1>2, <1>3, <1>4, <3>1 DEF HoldsIt
    <3>2. CASE d # mine
      <4>1. lockFile'[d] = lockFile[d] /\ HoldsIt(lockFile[d], d) /\ lockFile[d] \in Requests
        BY <1>1, <1>4, <2>2, <3>2 DEF RequestsInv, Exclusion, RequestsTypeOK
      <4>2. lockFile[d] # r
        BY <3>2, <4>1 DEF HoldsIt
      <4> QED BY <1>3, <4>1, <4>2 DEF HoldsIt
    <3> QED BY <3>1, <3>2
  <2> QED BY <2>1, <2>2 DEF Exclusion, HoldsIt
<1>10. Fresh'
  BY <1>2, <1>3 DEF RequestsInv, Fresh
<1>11. Placed'
  BY <1>2, <1>3 DEF RequestsInv, Placed, OwnTail
<1>12. BatchesAreApart'
  BY DEF RequestsInv, BatchesAreApart
<1>13. BusyHasAHolder'
  BY <1>2, <1>3 DEF RequestsInv, BusyHasAHolder
<1> QED BY <1>6, <1>7, <1>8, <1>9, <1>10, <1>11, <1>12, <1>13 DEF RequestsInv

LEMMA TakeLockKeeps ==
  ASSUME RequestsInv, NEW r \in Requests, TakeLock(r)
  PROVE  RequestsInv'
<1> DEFINE mine == handler[r].doc
<1>1. handler[r].at = "waiting" /\ mine \in Documents /\ handler[r] \in HandlerRecords
  BY DEF TakeLock, RequestsInv, RequestsTypeOK, Aimed
<1>2. CASE MayLock(mine) /\ lockFile' = [lockFile EXCEPT ![mine] = r] /\ Goes(r, "locked")
  BY <1>1, <1>2, HasLock DEF TakeLock, MayLock
<1>2a. CASE MayLock(mine) /\ lockFile' = [lockFile EXCEPT ![mine] = r] /\ Stuck(r)
  <2>1. /\ UNCHANGED <<documents, leaves, serving>>
        /\ leaves \in [Documents -> SUBSET LeafRecords]
        /\ DOMAIN documents \subseteq Documents /\ documents \in [DOMAIN documents -> BOOLEAN]
    BY DEF TakeLock, RequestsInv, RequestsTypeOK
  <2> QED BY <1>1, <1>2a, <2>1, StuckKeeps DEF MayLock
<1>2b. CASE RequestEnds(r, "failed") /\ UNCHANGED lockFile
  <2> DEFINE next == [NoRequest EXCEPT !.at = "failed"]
  <2>1. next \in HandlerRecords /\ next.at = "failed" /\ next.committed = 0 /\ next.sawHolder
    <3>1. "failed" \in HandlerStages /\ NoRequest.committed = 0 /\ NoRequest.sawHolder
      BY DEF HandlerStages, NoRequest
    <3> QED BY <3>1, EndingRecord, NoRequestIsARequest
  <2>2. handler' = [handler EXCEPT ![r] = next] /\ UNCHANGED <<documents, leaves, lockFile, serving>>
    BY <1>2b DEF TakeLock, RequestEnds
  <2> HIDE DEF next
  <2> QED BY <1>1, <2>1, <2>2, Stands
<1>3. CASE ~MayLock(mine) /\ ~LockFiles /\ Goes(r, "blocked") /\ UNCHANGED lockFile
  <2> DEFINE next == [handler[r] EXCEPT !.at = "blocked"]
  <2>1. next \in HandlerRecords /\ next.at = "blocked" /\ next.doc = mine
        /\ next.committed = handler[r].committed /\ next.sawHolder = handler[r].sawHolder
    BY <1>1 DEF HandlerRecords, HandlerStages
  <2>2. next.committed = 0 /\ next.sawHolder
    BY <1>1, <2>1 DEF RequestsInv, Fresh, BusyHasAHolder
  <2>3. handler' = [handler EXCEPT ![r] = next] /\ UNCHANGED <<documents, leaves, lockFile, serving>>
    BY <1>1, <1>3 DEF TakeLock, Goes
  <2> HIDE DEF next
  <2> QED BY <1>1, <2>1, <2>2, <2>3, Stands
<1>4. CASE /\ ~MayLock(mine) /\ UNCHANGED lockFile
           /\ handler' = [handler EXCEPT ![r] = [NoRequest EXCEPT
                !.at = "busy", !.sawHolder = HoldsIt(lockFile[mine], mine)]]
  <2> DEFINE next == [NoRequest EXCEPT !.at = "busy", !.sawHolder = HoldsIt(lockFile[mine], mine)]
  <2>1. HoldsIt(lockFile[mine], mine)
    BY <1>1, <1>4 DEF MayLock, RequestsInv, Exclusion
  <2>2. NoRequest.committed = 0 /\ HoldsIt(lockFile[mine], mine) \in BOOLEAN
    BY DEF NoRequest, HoldsIt
  <2>3. next \in HandlerRecords /\ next.at = "busy" /\ next.committed = 0
        /\ next.sawHolder = HoldsIt(lockFile[mine], mine)
    <3>1. next = [NoRequest EXCEPT !.at = "busy", !.sawHolder = HoldsIt(lockFile[mine], mine)]
      OBVIOUS
    <3> HIDE DEF next
    <3>2. /\ next \in HandlerRecords /\ next.at = "busy" /\ next.committed = NoRequest.committed
          /\ next.sawHolder = HoldsIt(lockFile[mine], mine)
      BY ONLY <2>2, <3>1, NoRequestIsARequest DEF HandlerRecords, HandlerStages
    <3> QED BY <2>2, <3>2
  <2>4. handler' = [handler EXCEPT ![r] = next] /\ UNCHANGED <<documents, leaves, lockFile, serving>>
    BY <1>1, <1>4 DEF TakeLock
  <2> HIDE DEF next
  <2> QED BY <1>1, <2>1, <2>3, <2>4, Stands
<1>5. /\ UNCHANGED <<documents, leaves, serving>>
      /\ \/ /\ MayLock(mine) /\ lockFile' = [lockFile EXCEPT ![mine] = r]
            /\ Goes(r, "locked") \/ Stuck(r)
         \/ /\ ~MayLock(mine) /\ UNCHANGED lockFile
            /\ IF ~LockFiles THEN Goes(r, "blocked")
               ELSE handler' = [handler EXCEPT ![r] = [NoRequest EXCEPT
                      !.at = "busy", !.sawHolder = HoldsIt(lockFile[mine], mine)]]
         \/ RequestEnds(r, "failed") /\ UNCHANGED lockFile
  BY DEF TakeLock
<1> QED BY <1>2, <1>2a, <1>2b, <1>3, <1>4, <1>5

LEMMA EndKeeps ==
  ASSUME RequestsInv, NEW r \in Requests, handler[r].at \in {"locked", "working"},
         NEW how \in {"done", "refused", "failed"}, Leaves(r, how),
         leaves' \in [Documents -> SUBSET LeafRecords],
         \A d \in Documents : leaves'[d] \subseteq leaves[d],
         DOMAIN documents' \subseteq Documents, documents' \in [DOMAIN documents' -> BOOLEAN],
         serving' = serving
  PROVE  RequestsInv'
<1> DEFINE next == [NoRequest EXCEPT !.at = how]
<1>1. \/ handler' = [handler EXCEPT ![r] = next] /\ lockFile' = GivenBack(r)
      \/ Stuck(r) /\ UNCHANGED lockFile
  BY DEF Leaves, LetsGo
<1>2. next \in HandlerRecords /\ next.at = how /\ next.sawHolder
  <2>1. how \in HandlerStages /\ NoRequest.sawHolder
    BY DEF HandlerStages, NoRequest
  <2> QED BY <2>1, EndingRecord, NoRequestIsARequest
<1> HIDE DEF next
<1>3. handler[r].doc \in Documents
  BY DEF RequestsInv, Aimed
<1> QED BY <1>1, <1>2, <1>3, GivesBack, StuckKeeps

\* the first leaf of a batch is counted from the rightmost one there is
LEMMA StartAppendKeeps ==
  ASSUME RequestsInv, NEW r \in Requests, StartAppend(r)
  PROVE  RequestsInv'
<1> DEFINE mine == handler[r].doc
           next == [handler[r] EXCEPT !.at = "working", !.base = Rightmost(mine)]
<1>1. /\ handler[r].at = "locked" /\ mine \in Documents /\ handler[r] \in HandlerRecords
      /\ RequestsTypeOK /\ Bounded
  BY DEF StartAppend, RequestsInv, RequestsTypeOK, Aimed
<1>2. DOMAIN documents' \subseteq Documents /\ documents' \in [DOMAIN documents' -> BOOLEAN]
  <2> DEFINE flag == Temporal(mine) \/ (Empty(mine) /\ HasTimes(handler[r].units))
  <2>1. documents' = [e \in DOMAIN documents \cup {mine} |-> IF e = mine THEN flag ELSE documents[e]]
    BY DEF StartAppend
  <2>2. flag \in BOOLEAN
    BY DEF Temporal, Empty
  <2> HIDE DEF flag
  <2> QED BY <1>1, <2>1, <2>2 DEF RequestsTypeOK
<1>3. CASE Agrees(r)
  <2>1. handler' = [handler EXCEPT ![r] = next]
        /\ UNCHANGED <<leaves, lockFile, serving>>
    BY <1>1, <1>3 DEF StartAppend
  <2>2. Rightmost(mine) \in Nat /\ \A leaf \in leaves[mine] : leaf.place <= Rightmost(mine)
    BY <1>1, RightmostIsLast
  <2>3. /\ next \in HandlerRecords /\ next.at = "working" /\ next.doc = mine
        /\ next.base = Rightmost(mine)
        /\ next.committed = handler[r].committed /\ next.sawHolder = handler[r].sawHolder
    BY ONLY <1>1, <2>2 DEF HandlerRecords, HandlerStages
  <2> HIDE DEF next
  <2>4. \A q \in Requests : handler'[q] = IF q = r THEN next ELSE handler[q]
    BY <1>1, <2>1 DEF RequestsTypeOK
  <2>5. RequestsTypeOK' /\ Bounded'
    BY <1>1, <1>2, <2>1, <2>3 DEF RequestsTypeOK, Bounded
  <2>6. Aimed'
    BY <1>1, <2>3, <2>4 DEF RequestsInv, Aimed
  <2>7. Exclusion'
    BY <1>1, <2>1, <2>3, <2>4 DEF RequestsInv, Exclusion, HoldsIt
  <2>8. Fresh'
    BY <2>1, <2>3, <2>4 DEF RequestsInv, Fresh
  <2>9. Placed'
    <3>1. OwnTail(r)'
      <4>1. next.committed = 0 /\ \A d \in Documents : \A leaf \in leaves[d] : leaf.by # r
        BY <1>1, <2>3 DEF RequestsInv, Fresh
      <4>2. \A leaf \in leaves[mine] : leaf.place \in Nat
        BY <1>1 DEF RequestsTypeOK, LeafRecords
      <4>3. handler'[r] = next /\ leaves' = leaves
        BY <2>1, <2>4
      <4> QED BY <2>2, <2>3, <4>1, <4>2, <4>3 DEF OwnTail
    <3>2. ASSUME NEW q \in Requests, handler'[q].at = "working", q # r PROVE OwnTail(q)'
      <4>1. handler'[q] = handler[q] /\ leaves' = leaves /\ OwnTail(q)
        BY <2>1, <2>4, <3>2 DEF RequestsInv, Placed
      <4> QED BY <4>1 DEF OwnTail
    <3> QED BY <3>1, <3>2 DEF Placed
  <2>10. BatchesAreApart' /\ BusyHasAHolder'
    BY <2>1, <2>3, <2>4 DEF RequestsInv, BatchesAreApart, BusyHasAHolder
  <2> QED BY <2>5, <2>6, <2>7, <2>8, <2>9, <2>10 DEF RequestsInv
<1>4. CASE ~Agrees(r)
  BY <1>1, <1>2, <1>4, EndKeeps DEF StartAppend, RequestsTypeOK
<1> QED BY <1>3, <1>4

\* The next leaf of a batch stands behind all leaves of the document, and all
\* that stand behind the batch's base are the batch's.
LEMMA AppendUnitKeeps ==
  ASSUME RequestsInv, NEW r \in Requests, AppendUnit(r)
  PROVE  RequestsInv'
<1> DEFINE mine == handler[r].doc
           k == handler[r].committed + 1
           unit == [place |-> handler[r].base + k, by |-> r, timed |-> handler[r].units[k]]
           next == [handler[r] EXCEPT !.committed = k]
<1>1. /\ handler[r].at = "working" /\ mine \in Documents /\ handler[r] \in HandlerRecords
      /\ RequestsTypeOK /\ Bounded /\ lockFile[mine] = r
      /\ handler \in [Requests -> HandlerRecords]
  BY DEF AppendUnit, RequestsInv, RequestsTypeOK, Aimed, Exclusion
<1>2. /\ handler[r].committed \in Nat /\ handler[r].base \in Nat
      /\ handler[r].units \in Seq(BOOLEAN) /\ k \in Nat /\ k >= 1
  BY <1>1 DEF HandlerRecords
<1>3. unit \in LeafRecords /\ unit.place = handler[r].base + k /\ unit.by = r
  <2>1. k \in 1 .. Len(handler[r].units)
    BY <1>2 DEF AppendUnit
  <2>2. handler[r].units[k] \in BOOLEAN
    BY <1>2, <2>1
  <2> QED BY <1>2, <2>2 DEF LeafRecords
<1>4. /\ next \in HandlerRecords /\ next.at = "working" /\ next.doc = mine
      /\ next.base = handler[r].base /\ next.committed = k
      /\ next.sawHolder = handler[r].sawHolder
  BY ONLY <1>1, <1>2 DEF HandlerRecords
<1>5. handler' = [handler EXCEPT ![r] = next] /\ UNCHANGED <<documents, lockFile, serving>>
  BY <1>1 DEF AppendUnit
<1>6. leaves' = [leaves EXCEPT ![mine] = @ \cup {unit}]
  BY DEF AppendUnit
<1> HIDE DEF next, unit
<1>7. \A q \in Requests : handler'[q] = IF q = r THEN next ELSE handler[q]
  BY <1>1, <1>5
<1>8. \A d \in Documents : leaves'[d] = IF d = mine THEN leaves[d] \cup {unit} ELSE leaves[d]
  BY <1>1, <1>6 DEF RequestsTypeOK
<1>8a. \A d \in Documents : \A leaf \in leaves'[d] : leaf \in leaves[d] \/ (d = mine /\ leaf = unit)
  BY <1>8
<1>9. RequestsTypeOK'
  BY <1>1, <1>3, <1>4, <1>5, <1>6 DEF RequestsTypeOK
<1>10. \A d \in Documents : \A leaf \in leaves'[d] : leaf.place \in Nat /\ leaf.by \in Requests
  BY <1>9 DEF RequestsTypeOK, LeafRecords
<1>11. \A leaf \in leaves[mine] :
         /\ leaf.place < unit.place
         /\ leaf.by = r <=> leaf.place > handler[r].base
  <2>1. OwnTail(r)
    BY <1>1 DEF RequestsInv, Placed
  <2>2. \A leaf \in leaves[mine] : leaf.place \in Nat
    BY <1>1 DEF RequestsTypeOK, LeafRecords
  <2> QED BY <1>1, <1>2, <1>3, <2>1, <2>2 DEF OwnTail
<1>12. Bounded'
  <2> SUFFICES ASSUME NEW d \in Documents
               PROVE  \E n \in Nat : \A leaf \in leaves'[d] : leaf.place <= n
    BY DEF Bounded
  <2>1. CASE d = mine
    <3>1. unit.place \in Nat
      BY <1>2, <1>3
    <3>2. \A leaf \in leaves'[d] : leaf.place <= unit.place
      <4> SUFFICES ASSUME NEW leaf \in leaves'[d] PROVE leaf.place <= unit.place
        OBVIOUS
      <4>1. leaf.place \in Nat
        BY <1>10
      <4> QED BY <1>11, <1>8a, <2>1, <3>1, <4>1
    <3> QED BY <3>1, <3>2
  <2>2. CASE d # mine
    BY <1>1, <1>8, <2>2 DEF Bounded
  <2> QED BY <2>1, <2>2
<1>13. Aimed'
  BY <1>1, <1>4, <1>7 DEF RequestsInv, Aimed
<1>14. Exclusion'
  BY <1>1, <1>4, <1>5, <1>7 DEF RequestsInv, Exclusion, HoldsIt
<1>15. Fresh'
  <2> SUFFICES ASSUME NEW q \in Requests,
                      handler'[q].at \in {"off", "waiting", "blocked", "locked"}
               PROVE  /\ handler'[q].committed = 0
                      /\ \A d \in Documents : \A leaf \in leaves'[d] : leaf.by # q
    BY DEF Fresh
  <2>1. q # r /\ handler'[q] = handler[q]
    BY <1>4, <1>7
  <2>2. handler[q].committed = 0 /\ \A d \in Documents : \A leaf \in leaves[d] : leaf.by # q
    BY <2>1 DEF RequestsInv, Fresh
  <2>3. unit.by # q
    BY <1>3, <2>1
  <2> QED BY <1>8a, <2>1, <2>2, <2>3
<1>16. Placed'
  <2>1. OwnTail(r)'
    <3>1. OwnTail(r)
      BY <1>1 DEF RequestsInv, Placed
    <3>2. ASSUME NEW d \in Documents, NEW leaf \in leaves'[d]
          PROVE  /\ leaf.by = r => d = mine
                 /\ d = mine => /\ leaf.by = r <=> leaf.place > handler[r].base
                               /\ leaf.place <= handler[r].base + k
      <4>1. CASE d # mine
        BY <1>8a, <3>1, <3>2, <4>1 DEF OwnTail
      <4>2. CASE d = mine /\ leaf \in leaves[mine]
        <5>1. leaf.place < unit.place /\ leaf.place \in Nat
          BY <1>10, <1>11, <3>2, <4>2
        <5> QED BY <1>2, <1>3, <1>11, <4>2, <5>1
      <4>3. CASE d = mine /\ leaf = unit
        BY <1>2, <1>3, <4>3
      <4> QED BY <1>8a, <3>2, <4>1, <4>2, <4>3
    <3> QED BY <1>4, <1>7, <3>2 DEF OwnTail
  <2>2. ASSUME NEW q \in Requests, handler'[q].at = "working", q # r
        PROVE  OwnTail(q)'
    <3>1. handler'[q] = handler[q] /\ OwnTail(q)
      BY <1>7, <2>2 DEF RequestsInv, Placed
    <3>2. handler[q].doc # mine /\ handler[q].doc \in Documents
      BY <1>1, <2>2, <3>1 DEF RequestsInv, Exclusion, Aimed
    <3> QED BY <1>3, <1>8, <2>2, <3>1, <3>2 DEF OwnTail
  <2> QED BY <2>1, <2>2 DEF Placed
<1>17. BatchesAreApart'
  <2> SUFFICES ASSUME NEW d \in Documents, NEW a \in leaves'[d], NEW b \in leaves'[d]
               PROVE  /\ a.place = b.place => a = b
                      /\ a.by = b.by => \A c \in leaves'[d] :
                           a.place < c.place /\ c.place < b.place => c.by = a.by
    BY DEF BatchesAreApart
  <2>1. CASE d # mine
    <3>1. leaves'[d] = leaves[d]
      BY <1>8, <2>1
    <3> QED BY <3>1 DEF RequestsInv, BatchesAreApart
  <2>2. CASE d = mine
    <3>1. unit.place \in Nat
      BY <1>2, <1>3
    <3>1a. a.place \in Nat /\ b.place \in Nat
      BY <1>10
    <3>1b. /\ a \in leaves[mine] \/ a = unit
           /\ b \in leaves[mine] \/ b = unit
      BY <1>8a, <2>2
    <3>2. a.place = b.place => a = b
      <4>1. CASE a \in leaves[mine] /\ b \in leaves[mine]
        BY <1>1, <4>1 DEF RequestsInv, BatchesAreApart
      <4>2. CASE ~(a \in leaves[mine] /\ b \in leaves[mine])
        BY <1>11, <3>1, <3>1a, <3>1b, <4>2
      <4> QED BY <4>1, <4>2
    <3>3. ASSUME a.by = b.by, NEW c \in leaves'[d], a.place < c.place, c.place < b.place
          PROVE  c.by = a.by
      <4>0a. c.place \in Nat /\ (c \in leaves[mine] \/ c = unit)
        BY <1>10, <1>8a, <2>2
      <4>0b. b.place <= unit.place
        BY <1>11, <3>1, <3>1a, <3>1b
      <4>1. c # unit /\ a # unit
        BY <3>1, <3>3, <3>1a, <4>0a, <4>0b
      <4>2. a \in leaves[mine] /\ c \in leaves[mine]
        BY <3>1b, <4>1, <4>0a
      <4>3. CASE b = unit
        <5>1. a.by = r
          BY <1>3, <3>3, <4>3
        <5>2. c.place > handler[r].base
          BY <1>2, <1>11, <3>3, <3>1a, <4>2, <4>0a, <5>1
        <5> QED BY <1>11, <4>2, <5>1, <5>2
      <4>4. CASE b # unit
        BY <1>1, <3>3, <3>1b, <4>2, <4>4 DEF RequestsInv, BatchesAreApart
      <4> QED BY <4>3, <4>4
    <3> QED BY <3>2, <3>3
  <2> QED BY <2>1, <2>2
<1>18. BusyHasAHolder'
  BY <1>4, <1>7 DEF RequestsInv, BusyHasAHolder
<1> QED BY <1>9, <1>12, <1>13, <1>14, <1>15, <1>16, <1>17, <1>18 DEF RequestsInv

LEMMA DeletesKeep ==
  ASSUME RequestsInv, NEW r \in Requests, DeleteFromSpan(r) \/ DeleteFromTime(r)
  PROVE  RequestsInv'
<1> DEFINE mine == handler[r].doc
<1>1. RequestsTypeOK /\ handler[r].at = "locked" /\ mine \in Documents
  BY DEF DeleteFromSpan, DeleteFromTime, RequestsInv, Aimed
<1>2. Leaves(r, "done") /\ UNCHANGED <<documents, serving>>
  BY DEF DeleteFromSpan, DeleteFromTime
<1>3. PICK kept \in SUBSET leaves[mine] : leaves' = [leaves EXCEPT ![mine] = kept]
  <2>1. CASE DeleteFromSpan(r)
    BY <2>1 DEF DeleteFromSpan
  <2>2. CASE DeleteFromTime(r)
    BY <2>2 DEF DeleteFromTime
  <2> QED BY <2>1, <2>2
<1>4. leaves' \in [Documents -> SUBSET LeafRecords]
      /\ \A d \in Documents : leaves'[d] \subseteq leaves[d]
  BY <1>1, <1>3 DEF RequestsTypeOK
<1> QED BY <1>1, <1>2, <1>4, EndKeeps DEF RequestsTypeOK

LEMMA AppendEnds ==
  ASSUME RequestsInv, NEW r \in Requests, EndAppend(r) \/ RequestBreaks(r)
  PROVE  RequestsInv'
<1>1. /\ RequestsTypeOK /\ handler[r].at \in {"locked", "working"}
      /\ UNCHANGED <<documents, leaves, serving>>
  BY DEF EndAppend, RequestBreaks, RequestsInv
<1>2. leaves' \in [Documents -> SUBSET LeafRecords]
      /\ \A d \in Documents : leaves'[d] \subseteq leaves[d]
  BY <1>1 DEF RequestsTypeOK
<1>3. CASE EndAppend(r)
  BY <1>1, <1>2, <1>3, EndKeeps DEF EndAppend, RequestsTypeOK
<1>4. CASE RequestBreaks(r)
  BY <1>1, <1>2, <1>4, EndKeeps DEF RequestBreaks, RequestsTypeOK
<1> QED BY <1>3, <1>4

\* Between the clear and the append of a replacement the document is free.
LEMMA ClearKeeps ==
  ASSUME RequestsInv, NEW r \in Requests, Clear(r)
  PROVE  RequestsInv'
<1> DEFINE mine == handler[r].doc
<1>1. /\ RequestsTypeOK /\ handler[r].at = "locked" /\ mine \in Documents
      /\ handler[r] \in HandlerRecords /\ handler[r].committed = 0 /\ handler[r].sawHolder
  BY DEF Clear, RequestsInv, RequestsTypeOK, Aimed, Fresh, BusyHasAHolder
<1>2. /\ serving' = serving
      /\ leaves' = [leaves EXCEPT ![mine] = {}]
      /\ documents' = [e \in DOMAIN documents \ {mine} |-> documents[e]]
  BY DEF Clear
<1>3. PICK next \in AfterClear(r) : LetsGo(r, next)
  BY DEF Clear
<1>4. leaves' \in [Documents -> SUBSET LeafRecords]
      /\ \A d \in Documents : leaves'[d] \subseteq leaves[d]
  BY <1>1, <1>2 DEF RequestsTypeOK
<1>5. DOMAIN documents' \subseteq Documents /\ documents' \in [DOMAIN documents' -> BOOLEAN]
  BY <1>1, <1>2 DEF RequestsTypeOK
<1>5a. CASE Stuck(r) /\ UNCHANGED lockFile
  BY <1>1, <1>2, <1>4, <1>5, <1>5a, StuckKeeps
<1>5b. \/ Stuck(r) /\ UNCHANGED lockFile
       \/ handler' = [handler EXCEPT ![r] = next] /\ lockFile' = GivenBack(r)
  BY <1>3 DEF LetsGo
<1> DEFINE Back == handler' = [handler EXCEPT ![r] = next] /\ lockFile' = GivenBack(r)
<1>6. CASE Back /\ handler[r].kind = "index"
  <2>1. next = [handler[r] EXCEPT !.kind = "append", !.at = "waiting"]
    BY <1>3, <1>6 DEF AfterClear
  <2>2. /\ next \in HandlerRecords /\ next.at = "waiting" /\ next.doc = mine
        /\ next.committed = handler[r].committed /\ next.sawHolder = handler[r].sawHolder
    BY ONLY <1>1, <2>1 DEF HandlerRecords, HandlerStages, RequestKinds
  <2> QED BY <1>1, <1>2, <1>6, <1>4, <1>5, <2>2, GivesBack
<1>7. CASE Back /\ handler[r].kind # "index" /\ handler[r].rest = {}
  <2>1. next = [NoRequest EXCEPT !.at = "done"]
    BY <1>3, <1>7 DEF AfterClear
  <2>2. Leaves(r, "done")
    BY <1>3, <2>1 DEF Leaves
  <2> QED BY <1>1, <1>2, <1>4, <1>5, <2>2, EndKeeps
<1>8. CASE Back /\ handler[r].kind # "index" /\ handler[r].rest # {}
  <2>1. PICK d \in handler[r].rest :
          next = [handler[r] EXCEPT !.doc = d, !.rest = @ \ {d}, !.at = "waiting"]
    BY <1>3, <1>8 DEF AfterClear
  <2>2. d \in Documents
    BY <1>1 DEF HandlerRecords
  <2>3. /\ next \in HandlerRecords /\ next.at = "waiting" /\ next.doc = d
        /\ next.committed = handler[r].committed /\ next.sawHolder = handler[r].sawHolder
    BY ONLY <1>1, <2>1, <2>2 DEF HandlerRecords, HandlerStages
  <2> QED BY <1>1, <1>2, <1>8, <1>4, <1>5, <2>2, <2>3, GivesBack
<1> QED BY <1>5a, <1>5b, <1>6, <1>7, <1>8

\* A server that dies leaves its lock files with the requests that held them;
\* its advisory locks are free.
LEMMA ServerDiesKeeps ==
  ASSUME RequestsInv, NEW s \in Hosts, ServerDies(s)
  PROVE  RequestsInv'
<1> DEFINE Killed(q) == /\ handler[q].server = s
                        /\ handler[q].at \in {"waiting", "blocked", "locked", "working"}
           dead(q) == [handler[q] EXCEPT !.at = "died"]
<1>1. RequestsTypeOK /\ \A q \in Requests : handler[q] \in HandlerRecords
  BY DEF RequestsInv, RequestsTypeOK
<1>2. ASSUME NEW q \in Requests
      PROVE  /\ dead(q) \in HandlerRecords /\ dead(q).at = "died" /\ dead(q).doc = handler[q].doc
             /\ dead(q).sawHolder = handler[q].sawHolder
  <2>1. handler[q] \in HandlerRecords
    BY <1>1
  <2> QED BY ONLY <2>1 DEF HandlerRecords, HandlerStages
<1>3. handler' = [q \in Requests |-> IF Killed(q) THEN dead(q) ELSE handler[q]]
  BY DEF ServerDies
<1>4. lockFile' = [d \in Documents |->
        IF ~LockFiles /\ lockFile[d] # Nobody /\ handler[lockFile[d]].server = s
        THEN Nobody ELSE lockFile[d]]
  BY DEF ServerDies
<1>5. UNCHANGED <<documents, leaves>> /\ serving' \subseteq Hosts
  BY <1>1 DEF ServerDies, RequestsTypeOK
<1>6. RequestsTypeOK' /\ Bounded'
  <2>1. handler' \in [Requests -> HandlerRecords]
    BY <1>1, <1>2, <1>3
  <2>2. lockFile' \in [Documents -> Requests \cup {Nobody}]
    BY <1>1, <1>4 DEF RequestsTypeOK
  <2> QED BY <1>5, <2>1, <2>2 DEF RequestsInv, RequestsTypeOK, Bounded
<1>7. \A q \in Requests :
        /\ handler'[q].doc = handler[q].doc /\ handler'[q].sawHolder = handler[q].sawHolder
        /\ \/ handler'[q] = handler[q] /\ ~Killed(q)
           \/ handler'[q].at = "died" /\ Killed(q)
  <2> HIDE DEF dead, Killed
  <2> QED BY <1>2, <1>3
<1> HIDE DEF dead
<1>8. Aimed'
  BY <1>7 DEF RequestsInv, Aimed
<1>9. Exclusion'
  <2>1. ASSUME NEW q \in Requests, handler'[q].at \in {"locked", "working"}
        PROVE  lockFile'[handler'[q].doc] = q
    <3>1. handler'[q] = handler[q] /\ handler[q].server # s
      BY <1>7, <2>1
    <3>2. handler[q].doc \in Documents /\ lockFile[handler[q].doc] = q
      BY <2>1, <3>1 DEF RequestsInv, Exclusion, Aimed
    <3> QED BY <1>4, <3>1, <3>2
  <2>2. ASSUME NEW d \in Documents, lockFile'[d] # Nobody
        PROVE  HoldsIt(lockFile[d], d)' /\ lockFile'[d] = lockFile[d]
    <3>1. lockFile'[d] = lockFile[d]
      BY <1>4, <2>2
    <3>2. HoldsIt(lockFile[d], d) /\ lockFile[d] \in Requests
      BY <1>1, <2>2, <3>1 DEF RequestsInv, Exclusion, RequestsTypeOK
    <3> QED BY <1>7, <3>1, <3>2 DEF HoldsIt
  <2> QED BY <2>1, <2>2 DEF Exclusion, HoldsIt
<1>10. Fresh'
  BY <1>5, <1>7 DEF RequestsInv, Fresh
<1>11. Placed'
  BY <1>5, <1>7 DEF RequestsInv, Placed, OwnTail
<1>12. BatchesAreApart' /\ BusyHasAHolder'
  BY <1>5, <1>7 DEF RequestsInv, BatchesAreApart, BusyHasAHolder
<1> QED BY <1>6, <1>8, <1>9, <1>10, <1>11, <1>12 DEF RequestsInv

-----------------------------------------------------------------------------
(* Theorems *)

LEMMA RequestsStep == RequestsInv /\ [RequestsNext]_requestVars => RequestsInv'
<1> SUFFICES ASSUME RequestsInv, [RequestsNext]_requestVars PROVE RequestsInv'
  OBVIOUS
<1>1. ASSUME NEW r \in Requests, Works(r) PROVE RequestsInv'
  BY <1>1, TakeLockKeeps, StartAppendKeeps, AppendUnitKeeps, AppendEnds, DeletesKeep, ClearKeeps
  DEF Works
<1>2. ASSUME NEW r \in Requests, Granted(r) PROVE RequestsInv'
  BY <1>2, HasLock DEF Granted
<1>3. CASE UNCHANGED requestVars
  BY <1>3 DEF requestVars, RequestsInv, RequestsTypeOK, Bounded, Aimed, Exclusion, HoldsIt,
              Fresh, Placed, OwnTail, BatchesAreApart, BusyHasAHolder
<1> QED BY <1>1, <1>2, <1>3, ArrivalKeeps, ServerDiesKeeps DEF RequestsNext

(* The inductive invariant of the requests that change documents: whatever *)
(* they are, on however many servers, whichever die.                       *)
THEOREM RequestsStayInOrder == RequestsSpec => []RequestsInv
BY RequestsStart, RequestsStep, PTL DEF RequestsSpec

(* The leaves of a document never share a place, and no leaf of another    *)
(* request stands among those of a batch (AppendExecutor.append_batch),    *)
(* though every leaf is a transaction of its own and the lock is let go in *)
(* the middle of a replacement.                                            *)
THEOREM BatchesStayApart == RequestsSpec => []BatchesAreApart
<1>1. RequestsInv => BatchesAreApart
  BY DEF RequestsInv
<1> QED BY <1>1, RequestsStayInOrder, PTL

(* Whoever is refused as busy has met a request that was at work on the    *)
(* document, had died at it, or had failed to write or to remove its lock  *)
(* file: no other way out of a handler leaves the lock behind              *)
(* (FileDocumentLock, DocumentIndexSession).                               *)
THEOREM BusyMeansHeld == RequestsSpec => []BusyHasAHolder
<1>1. RequestsInv => BusyHasAHolder
  BY DEF RequestsInv
<1> QED BY <1>1, RequestsStayInOrder, PTL

-----------------------------------------------------------------------------
(***************************************************************************)
(* The adapters, proved for transcripts of any length, with any number of  *)
(* rewinds, side branches, compactions, hooks and equal time stamps, of    *)
(* syncs that overlap with the editor, fail and are killed.                *)
(*                                                                         *)
(* A sync that keeps no state must find in the document alone how far the  *)
(* syncs before it came.  It can because the document is at any time a     *)
(* branch of the transcript, cut off behind one of its steps               *)
(* (DocIsABranch): the end time of the document then names that step, but  *)
(* for steps with its time stamp, which are in the document or in hand     *)
(* (TiesInHand).  The walk from the head ends where the branch of the head *)
(* meets what is indexed; what is kept up to there and what is appended    *)
(* make the branch of the head (Makes), provided that the editor never     *)
(* leaves a branch between equal time stamps (ForksApart) and that the     *)
(* steps between a record and one that goes on from it share its past      *)
(* (NoReturn): both are what `spoiled' watches.  A sync in progress is     *)
(* followed from stage to stage (Stage), one at a time (Alone).            *)
(*                                                                         *)
(* An adapter that counts joins what it has sent and what it still sends   *)
(* to the units it read (Joins), and its state file lists what it sent     *)
(* before (CountInv).                                                      *)
(***************************************************************************)

-----------------------------------------------------------------------------
(* Rising sequences of records *)

Rising(s) == s \in Seq(Nat) /\ \A m, n \in DOMAIN s : m < n => s[m] < s[n]

On(head) == Range(Branch(head))                  \* the records of a branch
StepsOn(head) == On(head) \cap AllSteps
UpTo(S, n) == {i \in S : i <= n}

\* The transcript, as every writer leaves it.
FileRecords == [parent : Nat, after : Nat, time : Nat, kind : Kinds]

WellLinked(i) ==
  /\ file[i].parent < i /\ file[i].after < i
  /\ Kind(i) = "hook" => file[i].parent = i - 1
  /\ file[i].parent \in {j \in DOMAIN file : Kind(j) = "hook"} => file[i].parent = i - 1
  /\ file[i].parent = None => Kind(i) # "summary" /\ file[i].after = LastMessage(i)
  /\ file[i].parent # None => file[i].after = file[i].parent

WellTimed(i) ==
  /\ 1 <= Time(i) /\ Time(i) <= i
  /\ \A j \in 1 .. i : Time(j) <= Time(i)
  /\ \A j \in 1 .. i - 1 : Time(j) = Time(i) => file[i].parent = i - 1

FileInv ==
  /\ file \in Seq(FileRecords)
  /\ Len(file) <= MaxRecords
  /\ \A i \in DOMAIN file : WellLinked(i) /\ WellTimed(i)

\* No branch leaves from a record with the time stamp of the next.
ForksApart ==
  \A i \in DOMAIN file :
    LET p == file[i].parent IN p # None /\ p < i - 1 => Time(p) < Time(p + 1)

\* The steps between a record and one that comes after it share its past.
SharesPast(n) ==
  \A i \in On(n) : \A j \in i + 1 .. n - 1 : IsStep(j) => UpTo(StepsOn(j), i) = StepsOn(i)
NoReturn == \A n \in DOMAIN file : SharesPast(n)

\* One sync at a time.
Alone ==
  \A p \in Syncs :
    /\ sync[p].pc = "idle" => sync[p] = Idle
    /\ sync[p].pc # "idle" => \A q \in Syncs \ {p} : sync[q].pc = "idle"
    /\ sync[p].pc \notin {"idle", "starting"} => lock = p
    /\ sync[p].pc # "adrift"

Latest == IF doc = <<>> THEN None ELSE Last(doc)

\* The document is a branch, up to one of its steps.
DocIsABranch == Rising(doc) /\ Range(doc) = StepsOn(Latest)

InHand == UNION {Range(sync[p].todo) : p \in {q \in Syncs : sync[q].pc = "appending"}}

\* A step with a time stamp of the document is there or about to be.
TiesInHand ==
  doc # <<>> =>
    \A j \in AllSteps : j > Latest /\ Time(j) = Time(Latest) => j \in InHand

HeadIsPast(p) ==
  /\ sync[p].head \in DOMAIN file
  /\ \A j \in AllSteps : j > sync[p].head => Time(j) > Time(sync[p].head)

\* What a document and what is to be appended make.
Makes(held, todo, head) ==
  /\ Rising(todo)
  /\ \A d \in held : \A t \in Range(todo) : d < t
  /\ held \cup Range(todo) = StepsOn(head)

Stage(p) ==
  LET head == sync[p].head
      todo == sync[p].todo
  IN /\ sync[p].pc \in {"looking", "cutting", "appending"} => HeadIsPast(p)
     /\ sync[p].pc = "looking" => \A d \in Range(doc) : d <= head
     /\ sync[p].pc = "cutting" =>
          \/ Kind(head) = "hook" /\ todo = <<>> /\ sync[p].cutoff = All
          \/ Makes(Range(doc) \cap Indexed(sync[p].cutoff), todo, head)
     /\ sync[p].pc = "appending" =>
          \/ Makes(Range(doc), todo, head)
          \/ todo = <<>> /\ Kind(head) = "hook"
          \/ todo = <<>> /\ ~sync[p].full /\ ~(Range(doc) \subseteq StepsOn(head))

SyncInv ==
  /\ ForksApart /\ NoReturn /\ Alone /\ DocIsABranch /\ TiesInHand
  /\ \A p \in Syncs : Stage(p)

-----------------------------------------------------------------------------
(* Recursive functions on numbers *)


\* What a recursive function is given by: where it ends and with what, and else
\* the smaller number it goes to and what it makes of the value there.
Scheme(N, ends, goes, base, makes, V) ==
  /\ N \in Nat
  /\ \A n \in 0 .. N : n \notin ends => goes[n] \in 0 .. n - 1
  /\ \A n \in 0 .. N : n \in ends => base[n] \in V
  /\ \A n \in 0 .. N : n \notin ends => \A v \in V : makes[<<n, v>>] \in V

Follows(f, N, ends, goes, base, makes) ==
  \A n \in 0 .. N : f[n] = IF n \in ends THEN base[n] ELSE makes[<<n, f[goes[n]]>>]

\* There is such a function.
LEMMA RecursionWorks ==
  ASSUME NEW N, NEW ends, NEW goes, NEW base, NEW makes, NEW V,
         Scheme(N, ends, goes, base, makes, V)
  PROVE  \E f \in [0 .. N -> V] : Follows(f, N, ends, goes, base, makes)
<1> DEFINE Unbuilt == {K \in 0 .. N : ~\E f \in [0 .. K -> V] : Follows(f, K, ends, goes, base, makes)}
<1>1. Unbuilt = {}
  <2> SUFFICES ASSUME Unbuilt # {} PROVE FALSE
    OBVIOUS
  <2>0. N \in Nat
    BY DEF Scheme
  <2>1. PICK K \in Unbuilt : \A y \in Unbuilt : K <= y
    <3>1. Unbuilt \in SUBSET Nat
      BY <2>0
    <3> HIDE DEF Unbuilt
    <3> QED BY <3>1, LeastNat
  <2>2. \E f \in [0 .. K - 1 -> V] : Follows(f, K - 1, ends, goes, base, makes)
    <3>1. CASE K = 0
      <4> DEFINE f == [k \in 0 .. K - 1 |-> {}]
      <4>1. f \in [0 .. K - 1 -> V] /\ Follows(f, K - 1, ends, goes, base, makes)
        BY <3>1, <2>0 DEF Follows, Scheme
      <4> QED BY <4>1
    <3>2. CASE K # 0
      BY <2>0, <2>1, <3>2
    <3> QED BY <3>1, <3>2
  <2>3. PICK f \in [0 .. K - 1 -> V] : Follows(f, K - 1, ends, goes, base, makes)
    BY <2>2
  <2> DEFINE last == IF K \in ends THEN base[K] ELSE makes[<<K, f[goes[K]]>>]
             g == [k \in 0 .. K |-> IF k = K THEN last ELSE f[k]]
  <2>4. K \in 0 .. N /\ K \in Nat /\ \A k \in 0 .. K : k \in 0 .. N /\ (k # K => k \in 0 .. K - 1)
    BY <2>0, <2>1
  <2>5. last \in V
    <3>1. K \notin ends => f[goes[K]] \in V
      BY <2>3, <2>4 DEF Scheme
    <3> QED BY <3>1, <2>4 DEF Scheme
  <2>6. g \in [0 .. K -> V]
    BY <2>3, <2>4, <2>5
  <2>7. Follows(g, K, ends, goes, base, makes)
    <3> SUFFICES ASSUME NEW n \in 0 .. K
                 PROVE  g[n] = IF n \in ends THEN base[n] ELSE makes[<<n, g[goes[n]]>>]
      BY DEF Follows
    <3>1. n \notin ends => goes[n] \in 0 .. n - 1
      BY <2>4 DEF Scheme
    <3>2. n \notin ends => g[goes[n]] = f[goes[n]]
      BY <2>4, <3>1
    <3>3. CASE n = K
      BY <3>2, <3>3
    <3>4. CASE n # K
      <4>1. n \in 0 .. K - 1 /\ g[n] = f[n]
        BY <2>4, <3>4
      <4> QED BY <2>3, <3>2, <4>1 DEF Follows
    <3> QED BY <3>3, <3>4
  <2> HIDE DEF g
  <2>8. \E h \in [0 .. K -> V] : Follows(h, K, ends, goes, base, makes)
    BY <2>6, <2>7
  <2> QED BY <2>1, <2>8
<1> QED BY <1>1 DEF Scheme

-----------------------------------------------------------------------------
(* Rising sequences *)

LEMMA EmptyRises == Rising(<<>>) /\ Range(<<>>) = {}
BY EmptySeq DEF Rising, Range

\* what a further element makes of a sequence
LEMMA AppendRises ==
  ASSUME NEW s, Rising(s), NEW x \in Nat, \A y \in Range(s) : y < x
  PROVE  Rising(Append(s, x)) /\ Range(Append(s, x)) = Range(s) \cup {x}
<1> DEFINE t == Append(s, x)
<1>1. s \in Seq(Nat) /\ Len(s) \in Nat
  BY DEF Rising
<1>2. /\ t \in Seq(Nat) /\ Len(t) = Len(s) + 1
      /\ \A i \in 1 .. Len(s) : t[i] = s[i]
      /\ t[Len(s) + 1] = x
  BY <1>1, AppendProperties
<1>3. DOMAIN t = 1 .. Len(s) + 1 /\ DOMAIN s = 1 .. Len(s)
  BY <1>1, <1>2
<1> HIDE DEF t
<1>4. ASSUME NEW m \in DOMAIN t, NEW n \in DOMAIN t, m < n PROVE t[m] < t[n]
  <2>1. m \in 1 .. Len(s) /\ t[m] = s[m]
    BY <1>1, <1>2, <1>3, <1>4
  <2>2. CASE n = Len(s) + 1
    BY <1>2, <1>3, <2>1, <2>2 DEF Range
  <2>3. CASE n # Len(s) + 1
    <3>1. n \in 1 .. Len(s) /\ t[n] = s[n]
      BY <1>1, <1>2, <1>3, <2>3
    <3> QED BY <1>3, <1>4, <2>1, <3>1 DEF Rising
  <2> QED BY <2>2, <2>3
<1>5. Range(t) = Range(s) \cup {x}
  BY <1>1, <1>2, <1>3 DEF Range
<1> QED BY <1>2, <1>4, <1>5 DEF Rising, t

\* Rising sequences with the same elements are the same.
LEMMA RisingEqual ==
  ASSUME NEW s, NEW t, Rising(s), Rising(t), Range(s) = Range(t)
  PROVE  s = t
<1>1. /\ s \in Seq(Nat) /\ t \in Seq(Nat) /\ Len(s) \in Nat /\ Len(t) \in Nat
      /\ DOMAIN s = 1 .. Len(s) /\ DOMAIN t = 1 .. Len(t)
  BY DEF Rising
<1> DEFINE Apart == {n \in Nat : n \in DOMAIN s /\ n \in DOMAIN t /\ s[n] # t[n]}
<1>2. Apart = {}
  <2> SUFFICES ASSUME Apart # {} PROVE FALSE
    OBVIOUS
  <2>1. PICK k \in Apart : \A y \in Apart : k <= y
    <3>1. Apart \in SUBSET Nat
      OBVIOUS
    <3> HIDE DEF Apart
    <3> QED BY <3>1, LeastNat
  <2>2. \A m \in 1 .. k - 1 : s[m] = t[m]
    BY <1>1, <2>1
  <2>3. PICK m \in DOMAIN t : s[k] = t[m]
    BY <2>1 DEF Range
  <2>4. PICK n \in DOMAIN s : t[k] = s[n]
    BY <2>1 DEF Range
  <2>5. s[k] \in Nat /\ t[k] \in Nat /\ k \in DOMAIN s /\ k \in DOMAIN t /\ s[k] # t[k] /\ k \in Nat
    BY <1>1, <2>1
  <2>6. ~(m < k)
    <3> SUFFICES ASSUME m < k PROVE FALSE
      OBVIOUS
    <3>1. m \in DOMAIN s /\ m \in 1 .. k - 1
      BY <1>1, <2>5
    <3>2. s[m] < s[k] /\ s[m] = t[m]
      BY <2>2, <2>5, <3>1 DEF Rising
    <3> QED BY <2>3, <2>5, <3>2
  <2>7. ~(n < k)
    <3> SUFFICES ASSUME n < k PROVE FALSE
      OBVIOUS
    <3>1. n \in DOMAIN t /\ n \in 1 .. k - 1
      BY <1>1, <2>5
    <3>2. t[n] < t[k] /\ s[n] = t[n]
      BY <2>2, <2>5, <3>1 DEF Rising
    <3> QED BY <2>4, <2>5, <3>2
  <2>8. m # k /\ n # k
    BY <2>3, <2>4, <2>5
  <2>9. k < m /\ k < n
    BY <1>1, <2>5, <2>6, <2>7, <2>8
  <2>10. t[k] < t[m] /\ s[k] < s[n]
    BY <2>5, <2>9 DEF Rising
  <2> QED BY <2>3, <2>4, <2>5, <2>10
<1>3. ~(Len(s) < Len(t))
  <2> SUFFICES ASSUME Len(s) < Len(t) PROVE FALSE
    OBVIOUS
  <2>1. Len(s) + 1 \in DOMAIN t
    BY <1>1
  <2>2. PICK m \in DOMAIN s : s[m] = t[Len(s) + 1]
    BY <2>1 DEF Range
  <2>3. m \in DOMAIN t /\ t[m] = s[m] /\ m < Len(s) + 1
    BY <1>1, <1>2, <2>2
  <2>4. t[m] < t[Len(s) + 1] /\ t[m] \in Nat
    BY <1>1, <2>1, <2>3 DEF Rising
  <2> QED BY <2>2, <2>3, <2>4
<1>4. ~(Len(t) < Len(s))
  <2> SUFFICES ASSUME Len(t) < Len(s) PROVE FALSE
    OBVIOUS
  <2>1. Len(t) + 1 \in DOMAIN s
    BY <1>1
  <2>2. PICK m \in DOMAIN t : t[m] = s[Len(t) + 1]
    BY <2>1 DEF Range
  <2>3. m \in DOMAIN s /\ t[m] = s[m] /\ m < Len(t) + 1
    BY <1>1, <1>2, <2>2
  <2>4. s[m] < s[Len(t) + 1] /\ s[m] \in Nat
    BY <1>1, <2>1, <2>3 DEF Rising
  <2> QED BY <2>2, <2>3, <2>4
<1>5. Len(s) = Len(t)
  <2>1. Len(s) \in Nat /\ Len(t) \in Nat
    BY <1>1
  <2> QED BY <1>3, <1>4, <2>1
<1>6. \A i \in 1 .. Len(s) : s[i] = t[i]
  BY <1>1, <1>2, <1>5
<1> QED BY <1>1, <1>5, <1>6, SeqEqual

\* The head of a rising sequence is its least element, the rest rises.
LEMMA RisingTail ==
  ASSUME NEW s, Rising(s), s # <<>>
  PROVE  /\ Rising(Tail(s)) /\ Head(s) \in Nat
         /\ Range(s) = {Head(s)} \cup Range(Tail(s))
         /\ \A y \in Range(Tail(s)) : Head(s) < y
<1>1. s \in Seq(Nat) /\ Len(s) \in Nat /\ DOMAIN s = 1 .. Len(s) /\ Len(s) # 0
  BY EmptySeq DEF Rising
<1> DEFINE t == Tail(s)
<1>2. t \in Seq(Nat) /\ Len(t) = Len(s) - 1 /\ \A i \in 1 .. Len(t) : t[i] = s[i + 1]
  BY <1>1, HeadTailProperties DEF Rising
<1>3. DOMAIN t = 1 .. Len(s) - 1
  BY <1>1, <1>2
<1>4. Head(s) = s[1] /\ 1 \in DOMAIN s
  BY <1>1
<1> HIDE DEF t
<1>5. \A m \in DOMAIN t : t[m] = s[m + 1] /\ m + 1 \in DOMAIN s /\ 1 < m + 1
  BY <1>1, <1>2, <1>3
<1>6. \A m \in DOMAIN s : m # 1 => m - 1 \in DOMAIN t /\ t[m - 1] = s[m]
  <2> SUFFICES ASSUME NEW m \in DOMAIN s, m # 1 PROVE m - 1 \in DOMAIN t /\ t[m - 1] = s[m]
    OBVIOUS
  <2>1. m - 1 \in DOMAIN t /\ (m - 1) + 1 = m
    BY <1>1, <1>3
  <2> QED BY <1>5, <2>1
<1>7. Rising(t)
  <2> SUFFICES ASSUME NEW m \in DOMAIN t, NEW n \in DOMAIN t, m < n PROVE t[m] < t[n]
    BY <1>2 DEF Rising
  <2>1. m + 1 < n + 1
    BY <1>1, <1>3
  <2> QED BY <1>5, <2>1 DEF Rising
<1>8. Range(s) = {Head(s)} \cup Range(t)
  <2>1. ASSUME NEW y \in Range(s) PROVE y \in {Head(s)} \cup Range(t)
    BY <1>4, <1>6 DEF Range
  <2>2. ASSUME NEW y \in Range(t) PROVE y \in Range(s)
    BY <1>5 DEF Range
  <2>3. Head(s) \in Range(s)
    BY <1>4 DEF Range
  <2> QED BY <2>1, <2>2, <2>3
<1>9. \A y \in Range(t) : Head(s) < y
  BY <1>4, <1>5 DEF Range, Rising
<1>10. Head(s) \in Nat
  BY <1>1, <1>4
<1> QED BY <1>7, <1>8, <1>9, <1>10 DEF t

\* The last element of a rising sequence is its greatest.
LEMMA RisingLast ==
  ASSUME NEW s, Rising(s), s # <<>>
  PROVE  Last(s) \in Range(s) /\ Last(s) \in Nat /\ \A y \in Range(s) : y <= Last(s)
<1>1. s \in Seq(Nat) /\ Len(s) \in Nat /\ DOMAIN s = 1 .. Len(s) /\ Len(s) # 0
  BY EmptySeq DEF Rising
<1>2. Len(s) \in DOMAIN s /\ s[Len(s)] \in Nat /\ \A m \in DOMAIN s : m < Len(s) \/ m = Len(s)
  BY <1>1
<1>3. \A m \in DOMAIN s : s[m] <= s[Len(s)]
  <2> SUFFICES ASSUME NEW m \in DOMAIN s PROVE s[m] <= s[Len(s)]
    OBVIOUS
  <2>1. s[m] \in Nat
    BY <1>1
  <2>2. m < Len(s) => s[m] < s[Len(s)]
    BY <1>2 DEF Rising
  <2> QED BY <1>2, <2>1, <2>2
<1> QED BY <1>2, <1>3 DEF Range, Last

Picks(kept, s, S) ==
  /\ kept[0] = <<>>
  /\ \A n \in 1 .. Len(s) :
       kept[n] = IF s[n] \in S THEN Append(kept[n - 1], s[n]) ELSE kept[n - 1]

\* What Among is, element by element.
LEMMA AmongIs ==
  ASSUME NEW s \in Seq(Nat), NEW S
  PROVE  \E kept \in [0 .. Len(s) -> Seq(Nat)] : Among(s, S) = kept[Len(s)] /\ Picks(kept, s, S)
<1> DEFINE N == Len(s)
           V == Seq(Nat)
           goes == [n \in 0 .. N |-> n - 1]
           base == [n \in 0 .. N |-> <<>>]
           makes == [p \in (0 .. N) \X V |-> IF s[p[1]] \in S THEN Append(p[2], s[p[1]]) ELSE p[2]]
           Keeps(f) == f = [n \in 0 .. N |->
                             IF n = 0 THEN <<>>
                             ELSE IF s[n] \in S THEN Append(f[n - 1], s[n]) ELSE f[n - 1]]
<1>1. N \in Nat /\ DOMAIN s = 1 .. N /\ \A n \in 1 .. N : s[n] \in Nat
  OBVIOUS
<1>2. \A n \in 0 .. N : \A v \in V : makes[<<n, v>>] = IF s[n] \in S THEN Append(v, s[n]) ELSE v
  OBVIOUS
<1>3. Scheme(N, {0}, goes, base, makes, V)
  <2>1. \A n \in 0 .. N : n \notin {0} => goes[n] \in 0 .. n - 1 /\ n \in 1 .. N
    BY <1>1
  <2>2. \A n \in 0 .. N : base[n] \in V
    BY EmptySeq
  <2>3. ASSUME NEW n \in 0 .. N, n \notin {0}, NEW v \in V PROVE makes[<<n, v>>] \in V
    <3>1. s[n] \in Nat
      BY <1>1, <2>1, <2>3
    <3>2. Append(v, s[n]) \in V
      BY <3>1, AppendProperties
    <3> HIDE DEF makes
    <3> QED BY <1>2, <3>2
  <2> HIDE DEF makes, base, goes, N, V
  <2> QED BY <1>1, <2>1, <2>2, <2>3 DEF Scheme
<1>4. PICK f \in [0 .. N -> V] : Follows(f, N, {0}, goes, base, makes)
  <2> HIDE DEF makes, base, goes, N, V
  <2> QED BY <1>3, RecursionWorks
<1>5. \A n \in 0 .. N : f[n] = IF n = 0 THEN <<>>
                               ELSE IF s[n] \in S THEN Append(f[n - 1], s[n]) ELSE f[n - 1]
  <2> SUFFICES ASSUME NEW n \in 0 .. N
               PROVE  f[n] = IF n = 0 THEN <<>>
                             ELSE IF s[n] \in S THEN Append(f[n - 1], s[n]) ELSE f[n - 1]
    OBVIOUS
  <2>1. f[n] = IF n \in {0} THEN base[n] ELSE makes[<<n, f[goes[n]]>>]
    BY <1>4 DEF Follows
  <2>2. base[n] = <<>> /\ goes[n] = n - 1
    OBVIOUS
  <2>3. n # 0 => f[n - 1] \in V
    <3>1. n # 0 => n - 1 \in 0 .. N
      BY <1>1
    <3> HIDE DEF V, N
    <3> QED BY <1>4, <3>1
  <2> HIDE DEF makes, base, goes, V
  <2> QED BY <1>2, <2>1, <2>2, <2>3
<1>6. Keeps(f)
  <2>1. f = [n \in 0 .. N |-> f[n]]
    BY <1>4
  <2> HIDE DEF N, V
  <2> QED BY <1>5, <2>1
<1>7. Among(s, S) = (CHOOSE g : Keeps(g))[N]
  BY DEF Among
<1> DEFINE kept == CHOOSE g : Keeps(g)
<1>8. Keeps(kept)
  <2> HIDE DEF Keeps
  <2> QED BY <1>6
<1>9. Among(s, S) = kept[N]
  BY <1>7
<1> HIDE DEF kept
<1>10. \A n \in 0 .. N : kept[n] = IF n = 0 THEN <<>>
                                   ELSE IF s[n] \in S THEN Append(kept[n - 1], s[n]) ELSE kept[n - 1]
  <2> HIDE DEF N
  <2> QED BY <1>8
<1>11. kept[0] = <<>> /\ \A n \in 1 .. N : kept[n] = IF s[n] \in S THEN Append(kept[n - 1], s[n])
                                                     ELSE kept[n - 1]
  <2>1. 0 \in 0 .. N /\ \A n \in 1 .. N : n \in 0 .. N /\ n # 0
    BY <1>1
  <2> HIDE DEF N
  <2> QED BY <1>10, <2>1
<1> DEFINE Untyped == {n \in 0 .. N : kept[n] \notin V}
<1>12. Untyped = {}
  <2> SUFFICES ASSUME Untyped # {} PROVE FALSE
    OBVIOUS
  <2>1. PICK k \in Untyped : \A y \in Untyped : k <= y
    <3>1. Untyped \in SUBSET Nat
      BY <1>1
    <3> HIDE DEF Untyped
    <3> QED BY <3>1, LeastNat
  <2>2. k # 0
    BY <1>11, <2>1, EmptySeq
  <2>3. k \in 1 .. N /\ k - 1 \in 0 .. N /\ kept[k - 1] \in V
    BY <1>1, <2>1, <2>2
  <2>4. s[k] \in Nat
    BY <1>1, <2>3
  <2>5. Append(kept[k - 1], s[k]) \in V
    BY <2>3, <2>4, AppendProperties
  <2>6. kept[k] \in V
    <3> HIDE DEF V
    <3> QED BY <1>11, <2>3, <2>5
  <2> QED BY <2>1, <2>6
<1>13. kept \in [0 .. N -> V]
  <2>1. kept = [n \in 0 .. N |-> kept[n]]
    BY <1>8
  <2> HIDE DEF V, N
  <2> QED BY <1>12, <2>1
<1> QED BY <1>9, <1>11, <1>13 DEF N, V, Picks

\* Of a rising sequence, Among keeps the elements of the set and their order.
LEMMA AmongRises ==
  ASSUME NEW s, Rising(s), NEW S
  PROVE  Rising(Among(s, S)) /\ Range(Among(s, S)) = Range(s) \cap S
<1>1. s \in Seq(Nat) /\ Len(s) \in Nat /\ DOMAIN s = 1 .. Len(s)
  BY DEF Rising
<1>2. PICK kept \in [0 .. Len(s) -> Seq(Nat)] :
        Among(s, S) = kept[Len(s)] /\ Picks(kept, s, S)
  BY <1>1, AmongIs
<1> DEFINE First(n) == {s[m] : m \in 1 .. n}
           Wrong == {n \in 0 .. Len(s) : ~(Rising(kept[n]) /\ Range(kept[n]) = First(n) \cap S)}
<1>3. Wrong = {}
  <2> SUFFICES ASSUME Wrong # {} PROVE FALSE
    OBVIOUS
  <2>1. PICK k \in Wrong : \A y \in Wrong : k <= y
    <3>1. Wrong \in SUBSET Nat
      BY <1>1
    <3> HIDE DEF Wrong
    <3> QED BY <3>1, LeastNat
  <2>2. k # 0
    <3>1. First(0) = {}
      OBVIOUS
    <3> HIDE DEF First
    <3> QED BY <1>2, <2>1, <3>1, EmptyRises DEF Picks
  <2>3. k \in 1 .. Len(s) /\ k - 1 \in 0 .. Len(s) /\ k - 1 \notin Wrong
    <3>1. k \in 0 .. Len(s)
      BY <2>1
    <3>2. k - 1 \in 0 .. Len(s) /\ k \in 1 .. Len(s) /\ ~(k <= k - 1)
      BY <1>1, <2>2, <3>1
    <3> HIDE DEF Wrong
    <3> QED BY <2>1, <3>2
  <2>4. Rising(kept[k - 1]) /\ Range(kept[k - 1]) = First(k - 1) \cap S
    BY <2>3
  <2>5. First(k) = First(k - 1) \cup {s[k]}
    <3>1. 1 .. k = (1 .. k - 1) \cup {k}
      BY <2>3
    <3> QED BY <3>1
  <2>6. \A y \in First(k - 1) : y < s[k]
    <3>1. \A m \in 1 .. k - 1 : m \in DOMAIN s /\ k \in DOMAIN s /\ m < k
      BY <1>1, <2>3
    <3> QED BY <3>1 DEF Rising
  <2>7. s[k] \in Nat
    BY <1>1, <2>3
  <2> HIDE DEF First
  <2>8. CASE s[k] \in S
    <3>1. kept[k] = Append(kept[k - 1], s[k])
      BY <1>2, <2>3, <2>8 DEF Picks
    <3>2. \A y \in Range(kept[k - 1]) : y < s[k]
      BY <2>4, <2>6
    <3>3. Rising(kept[k]) /\ Range(kept[k]) = Range(kept[k - 1]) \cup {s[k]}
      BY <2>4, <2>7, <3>1, <3>2, AppendRises
    <3> QED BY <2>1, <2>4, <2>5, <2>8, <3>3
  <2>9. CASE s[k] \notin S
    <3>1. kept[k] = kept[k - 1]
      BY <1>2, <2>3, <2>9 DEF Picks
    <3> QED BY <2>1, <2>4, <2>5, <2>9, <3>1
  <2> QED BY <2>8, <2>9
<1>4. Rising(kept[Len(s)]) /\ Range(kept[Len(s)]) = First(Len(s)) \cap S
  BY <1>1, <1>3
<1>5. First(Len(s)) = Range(s)
  BY <1>1 DEF Range
<1> QED BY <1>2, <1>4, <1>5

-----------------------------------------------------------------------------
(* Chains *)

Downward(links) == \A i \in DOMAIN file : links[i] \in 0 .. i - 1
Ends(i, stops) == i = None \/ i \in stops

LEMMA FileLength == ASSUME FileInv PROVE Len(file) \in Nat /\ DOMAIN file = 1 .. Len(file)
BY DEF FileInv

\* A chain is built along the links.
LEMMA ChainIs ==
  ASSUME FileInv, NEW links, Downward(links), NEW stops
  PROVE  \A h \in 0 .. Len(file) :
           ChainFrom(h, links, stops) =
             IF Ends(h, stops) THEN <<>> ELSE Append(ChainFrom(links[h], links, stops), h)
<1> DEFINE N == Len(file)
           V == Seq(Nat)
           ends == {0} \cup stops
           base == [n \in 0 .. N |-> <<>>]
           makes == [p \in (0 .. N) \X V |-> Append(p[2], p[1])]
           Chains(f) == f = [i \in 0 .. N |->
                              IF i = None \/ i \in stops THEN <<>> ELSE Append(f[links[i]], i)]
<1>1. N \in Nat /\ DOMAIN file = 1 .. N
  BY FileLength
<1>2. \A n \in 0 .. N : \A v \in V : makes[<<n, v>>] = Append(v, n)
  OBVIOUS
<1>3. Scheme(N, ends, links, base, makes, V)
  <2>1. \A n \in 0 .. N : n \notin ends => links[n] \in 0 .. n - 1
    BY <1>1 DEF Downward
  <2>2. \A n \in 0 .. N : base[n] \in V
    BY EmptySeq
  <2>3. ASSUME NEW n \in 0 .. N, NEW v \in V PROVE makes[<<n, v>>] \in V
    <3>1. n \in Nat
      BY <1>1
    <3>2. Append(v, n) \in V
      BY <3>1, AppendProperties
    <3> HIDE DEF makes
    <3> QED BY <1>2, <3>2
  <2> HIDE DEF makes, base, N, V, ends
  <2> QED BY <1>1, <2>1, <2>2, <2>3 DEF Scheme
<1>4. PICK f \in [0 .. N -> V] : Follows(f, N, ends, links, base, makes)
  <2> HIDE DEF makes, base, N, V, ends
  <2> QED BY <1>3, RecursionWorks
<1>5. \A n \in 0 .. N : f[n] = IF n = None \/ n \in stops THEN <<>> ELSE Append(f[links[n]], n)
  <2> SUFFICES ASSUME NEW n \in 0 .. N
               PROVE  f[n] = IF n = None \/ n \in stops THEN <<>> ELSE Append(f[links[n]], n)
    OBVIOUS
  <2>1. f[n] = IF n \in ends THEN base[n] ELSE makes[<<n, f[links[n]]>>]
    BY <1>4 DEF Follows
  <2>2. base[n] = <<>> /\ (n \in ends <=> n = None \/ n \in stops)
    BY DEF None
  <2>3. n \notin ends => f[links[n]] \in V
    <3>1. n \notin ends => n \in DOMAIN file /\ links[n] \in 0 .. N
      BY <1>1 DEF Downward
    <3> HIDE DEF V, N, ends
    <3> QED BY <1>4, <3>1
  <2> HIDE DEF makes, base, V, ends
  <2> QED BY <1>2, <2>1, <2>2, <2>3
<1>6. Chains(f)
  <2>1. f = [n \in 0 .. N |-> f[n]]
    BY <1>4
  <2> HIDE DEF N, V
  <2> QED BY <1>5, <2>1
<1> DEFINE chain == CHOOSE g : Chains(g)
<1>7. \A h : ChainFrom(h, links, stops) = chain[h]
  BY DEF ChainFrom
<1>8. Chains(chain)
  <2> HIDE DEF Chains
  <2> QED BY <1>6
<1> HIDE DEF chain
<1>9. \A h \in 0 .. N : chain[h] = IF h = None \/ h \in stops THEN <<>> ELSE Append(chain[links[h]], h)
  <2> HIDE DEF N
  <2> QED BY <1>8
<1> QED BY <1>7, <1>9 DEF Ends, N

\* A chain rises, and its records are those the links lead to.
LEMMA ChainRises ==
  ASSUME FileInv, NEW links, Downward(links), NEW stops
  PROVE  \A h \in 0 .. Len(file) :
           /\ Rising(ChainFrom(h, links, stops))
           /\ Range(ChainFrom(h, links, stops)) \subseteq 1 .. h
           /\ Range(ChainFrom(h, links, stops)) =
                IF Ends(h, stops) THEN {} ELSE Range(ChainFrom(links[h], links, stops)) \cup {h}
<1> DEFINE C(h) == ChainFrom(h, links, stops)
           Good(h) == /\ Rising(C(h)) /\ Range(C(h)) \subseteq 1 .. h
                      /\ Range(C(h)) = IF Ends(h, stops) THEN {} ELSE Range(C(links[h])) \cup {h}
           Wrong == {h \in 0 .. Len(file) : ~Good(h)}
<1>1. Len(file) \in Nat /\ DOMAIN file = 1 .. Len(file)
  BY FileLength
<1>2. \A h \in 0 .. Len(file) : C(h) = IF Ends(h, stops) THEN <<>> ELSE Append(C(links[h]), h)
  BY ChainIs
<1> HIDE DEF C
<1>3. Wrong = {}
  <2> SUFFICES ASSUME Wrong # {} PROVE FALSE
    OBVIOUS
  <2>1. PICK h \in Wrong : \A y \in Wrong : h <= y
    <3>1. Wrong \in SUBSET Nat
      BY <1>1
    <3> HIDE DEF Wrong
    <3> QED BY <3>1, LeastNat
  <2>2. h \in 0 .. Len(file) /\ ~Good(h)
    BY <2>1
  <2>3. ~Ends(h, stops)
    <3> SUFFICES ASSUME Ends(h, stops) PROVE FALSE
      OBVIOUS
    <3>1. C(h) = <<>>
      BY <1>2, <2>2
    <3> QED BY <2>2, <3>1, EmptyRises
  <2>4. h \in DOMAIN file /\ h \in Nat
    BY <1>1, <2>2, <2>3 DEF Ends, None
  <2>5. links[h] \in 0 .. h - 1
    BY <2>4 DEF Downward
  <2>6. links[h] \in 0 .. Len(file) /\ ~(h <= links[h])
    BY <1>1, <2>2, <2>4, <2>5
  <2>7. Good(links[h])
    <3>1. links[h] \notin Wrong
      BY <2>1, <2>6
    <3> HIDE DEF Good
    <3> QED BY <2>6, <3>1
  <2>8. \A y \in Range(C(links[h])) : y < h
    BY <2>4, <2>5, <2>7
  <2>9. C(h) = Append(C(links[h]), h)
    BY <1>2, <2>2, <2>3
  <2>10. Rising(C(h)) /\ Range(C(h)) = Range(C(links[h])) \cup {h}
    BY <2>4, <2>7, <2>8, <2>9, AppendRises
  <2>11. Range(C(h)) \subseteq 1 .. h
    <3>1. Range(C(links[h])) \subseteq 1 .. links[h]
      BY <2>7
    <3> QED BY <2>4, <2>5, <2>10, <3>1
  <2> QED BY <2>2, <2>3, <2>10, <2>11
<1> QED BY <1>3 DEF C

\* The ghosts' links go down, and so do the other ones.
LEMMA BranchLinks ==
  ASSUME FileInv
  PROVE  Downward([i \in DOMAIN file |-> file[i].after])
<1> SUFFICES ASSUME NEW i \in DOMAIN file PROVE file[i].after \in 0 .. i - 1
  BY DEF Downward
<1>1. WellLinked(i) /\ file[i] \in FileRecords /\ i \in Nat
  BY DEF FileInv
<1> QED BY <1>1 DEF WellLinked, FileRecords

\* The records of a branch: what it comes to when one more is put to it.
LEMMA OnIs ==
  ASSUME FileInv
  PROVE  /\ On(None) = {}
         /\ \A h \in 0 .. Len(file) : Rising(Branch(h)) /\ On(h) \subseteq 1 .. h
         /\ \A h \in DOMAIN file : On(h) = On(file[h].after) \cup {h}
<1> DEFINE links == [i \in DOMAIN file |-> file[i].after]
<1>1. \A h : Branch(h) = ChainFrom(h, links, {})
  BY DEF Branch
<1>2. \A h \in DOMAIN file : links[h] = file[h].after
  OBVIOUS
<1>3. Downward(links)
  BY BranchLinks
<1> HIDE DEF links
<1>4. \A h \in 0 .. Len(file) :
           /\ Rising(ChainFrom(h, links, {}))
           /\ Range(ChainFrom(h, links, {})) \subseteq 1 .. h
           /\ Range(ChainFrom(h, links, {})) =
                IF Ends(h, {}) THEN {} ELSE Range(ChainFrom(links[h], links, {})) \cup {h}
  BY <1>3, ChainRises
<1>5. \A h \in 0 .. Len(file) :
           /\ Rising(Branch(h)) /\ On(h) \subseteq 1 .. h
           /\ On(h) = IF Ends(h, {}) THEN {} ELSE On(links[h]) \cup {h}
  BY <1>1, <1>4 DEF On
<1>6. None \in 0 .. Len(file) /\ Ends(None, {})
  BY FileLength DEF None, Ends
<1>7. \A h \in DOMAIN file : h \in 0 .. Len(file) /\ ~Ends(h, {})
  BY FileLength DEF None, Ends
<1> QED BY <1>2, <1>5, <1>6, <1>7

OnLinked == On(None) = {} /\ \A h \in DOMAIN file : \A a : a = file[h].after => On(h) = On(a) \cup {h}

LEMMA OnIsLinked == FileInv => OnLinked
BY OnIs DEF OnLinked

LEMMA BranchStepsIs ==
  ASSUME FileInv
  PROVE  \A h \in 0 .. Len(file) : Rising(BranchSteps(h)) /\ Range(BranchSteps(h)) = StepsOn(h)
<1> SUFFICES ASSUME NEW h \in 0 .. Len(file)
             PROVE  Rising(BranchSteps(h)) /\ Range(BranchSteps(h)) = StepsOn(h)
  OBVIOUS
<1>1. Rising(Branch(h))
  BY OnIs
<1>2. Rising(Among(Branch(h), AllSteps)) /\ Range(Among(Branch(h), AllSteps)) = Range(Branch(h)) \cap AllSteps
  BY <1>1, AmongRises
<1> QED BY <1>2 DEF BranchSteps, StepsOf, StepsOn, On

\* A branch up to one of its records is the branch of this record.
LEMMA BranchCut ==
  ASSUME FileInv
  PROVE  \A h \in 0 .. Len(file) : \A x \in On(h) : On(x) = UpTo(On(h), x)
<1> DEFINE Wrong == {h \in 0 .. Len(file) : ~\A x \in On(h) : On(x) = UpTo(On(h), x)}
<1>1. Len(file) \in Nat /\ DOMAIN file = 1 .. Len(file)
  BY FileLength
<1>2. Wrong = {}
  <2> SUFFICES ASSUME Wrong # {} PROVE FALSE
    OBVIOUS
  <2>1. PICK h \in Wrong : \A y \in Wrong : h <= y
    <3>1. Wrong \in SUBSET Nat
      BY <1>1
    <3> HIDE DEF Wrong
    <3> QED BY <3>1, LeastNat
  <2>2. h # None
    BY <2>1, OnIs
  <2>3. h \in DOMAIN file /\ h \in 0 .. Len(file) /\ h \in Nat
    BY <1>1, <2>1, <2>2 DEF None
  <2> DEFINE a == file[h].after
  <2>4. a \in 0 .. Len(file) /\ a < h /\ a \in Nat
    <3>1. a \in 0 .. h - 1
      BY <2>3, BranchLinks DEF Downward
    <3> HIDE DEF a
    <3> QED BY <1>1, <2>3, <3>1
  <2>5. \A x \in On(a) : On(x) = UpTo(On(a), x)
    <3>1. a \notin Wrong
      BY <2>1, <2>3, <2>4
    <3> HIDE DEF a
    <3> QED BY <2>4, <3>1
  <2>6. On(h) = On(a) \cup {h} /\ On(h) \subseteq 1 .. h /\ On(a) \subseteq 1 .. a
    BY <2>3, <2>4, OnIs
  <2> HIDE DEF a
  <2>7. ASSUME NEW x \in On(h) PROVE On(x) = UpTo(On(h), x)
    <3>1. CASE x = h
      BY <2>3, <2>6, <3>1 DEF UpTo
    <3>2. CASE x # h
      <4>1. x \in On(a) /\ x <= a /\ x \in Nat
        BY <2>4, <2>6, <3>2
      <4>2. UpTo(On(h), x) = UpTo(On(a), x)
        BY <2>3, <2>4, <2>6, <4>1 DEF UpTo
      <4> QED BY <2>5, <4>1, <4>2
    <3> QED BY <3>1, <3>2
  <2> QED BY <2>1, <2>7
<1> QED BY <1>2

\* Of two records of a branch the later one comes after a record that is not
\* before the earlier one.
LEMMA Between ==
  ASSUME FileInv, NEW h \in 0 .. Len(file), NEW x \in On(h), NEW y \in On(h), x < y
  PROVE  x \in On(file[y].after) /\ x <= file[y].after
<1>1. Len(file) \in Nat /\ DOMAIN file = 1 .. Len(file)
  BY FileLength
<1>2. On(h) \subseteq 1 .. h
  BY OnIs
<1>3. y \in DOMAIN file /\ x \in Nat /\ y \in Nat
  BY <1>1, <1>2
<1>4. x \in On(y)
  BY <1>3, BranchCut DEF UpTo
<1>5. On(y) = On(file[y].after) \cup {y}
  BY <1>3, OnIs
<1>6. x \in On(file[y].after)
  BY <1>3, <1>4, <1>5
<1>7. file[y].after \in 0 .. y - 1
  BY <1>3, BranchLinks DEF Downward
<1>8. On(file[y].after) \subseteq 1 .. file[y].after
  BY <1>1, <1>3, <1>7, OnIs
<1> QED BY <1>3, <1>6, <1>7, <1>8

\* A bounded set of numbers that is not empty has a greatest.
LEMMA MaxIs ==
  ASSUME NEW n \in Nat, NEW T \in SUBSET (0 .. n), T # {}
  PROVE  Max(T) \in T /\ \A x \in T : x <= Max(T)
<1> DEFINE Above == {m \in Nat : \A p \in T : p <= m}
<1>1. T \in SUBSET Nat
  OBVIOUS
<1>2. Above \in SUBSET Nat /\ Above # {}
  <2>1. n \in Above
    OBVIOUS
  <2> QED BY <2>1
<1>3. PICK m \in Above : \A k \in Above : m <= k
  <2> HIDE DEF Above
  <2> QED BY <1>2, LeastNat
<1>4. m \in T
  <2> SUFFICES ASSUME m \notin T PROVE FALSE
    OBVIOUS
  <2>1. m \in Nat /\ \A p \in T : p <= m /\ p # m
    BY <1>3
  <2>2. m # 0 /\ m - 1 \in Nat
    <3>1. PICK p \in T : p \in Nat
      BY <1>1
    <3>2. p <= m /\ p # m
      BY <2>1
    <3> QED BY <2>1, <3>1, <3>2
  <2>3. \A p \in T : p <= m - 1
    BY <2>1, <1>1
  <2>4. m - 1 \in Above
    BY <2>2, <2>3
  <2> QED BY <2>1, <2>4, <1>3
<1>5. \A p \in T : m >= p
  BY <1>1, <1>3
<1>6. Max(T) \in T /\ \A p \in T : Max(T) >= p
  BY <1>4, <1>5 DEF Max
<1> QED BY <1>1, <1>6

\* The last of some records.
LEMMA LastOfIs ==
  ASSUME NEW n \in Nat, NEW S \in SUBSET (1 .. n)
  PROVE  /\ LastOf(S) \in Nat /\ LastOf(S) <= n
         /\ LastOf(S) = None \/ LastOf(S) \in S
         /\ \A x \in S : x <= LastOf(S)
<1>1. PICK T : T = S \cup {0}
  OBVIOUS
<1>2. T \in SUBSET (0 .. n) /\ T # {} /\ \A x \in T : x \in Nat /\ x <= n
  BY <1>1
<1>3. Max(T) \in T /\ \A x \in T : x <= Max(T)
  BY <1>2, MaxIs
<1>4. LastOf(S) = Max(T)
  BY <1>1 DEF LastOf, None
<1> QED BY <1>1, <1>2, <1>3, <1>4 DEF None

\* The message a record without a parent comes after.
LEMMA LastMessageIs ==
  ASSUME FileInv, NEW i \in 1 .. Len(file) + 1
  PROVE  /\ LastMessage(i) \in 0 .. i - 1
         /\ \A j \in 1 .. i - 1 : Kind(j) \in {"prompt", "reply", "summary"} => j <= LastMessage(i)
         /\ LastMessage(i) # None => Kind(LastMessage(i)) \in {"prompt", "reply", "summary"}
<1> DEFINE S == {j \in 1 .. i - 1 : Kind(j) \in {"prompt", "reply", "summary"}}
<1>1. i \in Nat /\ i - 1 \in Nat /\ S \in SUBSET (1 .. i - 1)
  BY FileLength
<1>2. LastMessage(i) = LastOf(S)
  BY DEF LastMessage
<1>3. /\ LastOf(S) \in Nat /\ LastOf(S) <= i - 1 /\ \A x \in S : x <= LastOf(S)
      /\ LastOf(S) = None \/ LastOf(S) \in S
  <2> HIDE DEF S
  <2> QED BY <1>1, LastOfIs
<1>4. LastOf(S) \in 0 .. i - 1
  <2> HIDE DEF S
  <2> QED BY <1>1, <1>3
<1> QED BY <1>2, <1>3, <1>4

\* A step with the time stamp of an earlier record of a branch, and between two
\* of its records, is on the branch.
LEMMA TiesAreOnTheBranch ==
  ASSUME FileInv, ForksApart, NEW h \in 0 .. Len(file), NEW x \in On(h),
         NEW j \in AllSteps, x < j, j <= h, Time(j) = Time(x)
  PROVE  j \in On(h)
<1>1. Len(file) \in Nat /\ DOMAIN file = 1 .. Len(file)
  BY FileLength
<1>2. On(h) \subseteq 1 .. h
  BY OnIs
<1>3. j \in DOMAIN file /\ j \in Nat /\ x \in DOMAIN file /\ x \in Nat /\ IsStep(j) /\ h \in DOMAIN file
  BY <1>1, <1>2 DEF AllSteps
<1> DEFINE Beyond == {y \in On(h) : j <= y}
<1>4. h \in On(h)
  BY <1>3, OnIs
<1>5. PICK y \in Beyond : \A z \in Beyond : y <= z
  <2>1. Beyond \in SUBSET Nat /\ Beyond # {}
    BY <1>2, <1>4
  <2> HIDE DEF Beyond
  <2> QED BY <2>1, LeastNat
<1>6. y \in On(h) /\ j <= y /\ y \in DOMAIN file /\ y \in Nat
  BY <1>1, <1>2, <1>5
<1> SUFFICES ASSUME y # j PROVE FALSE
  BY <1>6
<1>7. j < y /\ x < y
  BY <1>3, <1>6
<1> DEFINE a == file[y].after
<1>8. a \in 0 .. y - 1
  BY <1>6, BranchLinks DEF Downward
<1>9. x \in On(a) /\ x <= a
  BY <1>6, <1>7, Between
<1>10. a \in On(h)
  <2>1. a \in On(a)
    <3>1. a \in DOMAIN file
      BY <1>1, <1>3, <1>6, <1>8, <1>9
    <3> HIDE DEF a
    <3> QED BY <3>1, OnIs
  <2>2. a \in On(y)
    BY <1>6, <2>1, OnIs
  <2> HIDE DEF a
  <2> QED BY <1>6, <2>2, BranchCut DEF UpTo
<1>11. a < j
  <2> SUFFICES ASSUME ~(a < j) PROVE FALSE
    OBVIOUS
  <2>1. a \in Beyond
    <3> HIDE DEF a
    <3> QED BY <1>3, <1>8, <1>10
  <2> HIDE DEF a, Beyond
  <2> QED BY <1>5, <1>6, <1>8, <2>1
<1>12. WellLinked(y) /\ WellTimed(j)
  BY <1>3, <1>6 DEF FileInv
<1>13. CASE file[y].parent = None
  <2>1. a = LastMessage(y)
    BY <1>12, <1>13 DEF WellLinked
  <2>2. y \in 1 .. Len(file) + 1 /\ j \in 1 .. y - 1
    BY <1>1, <1>3, <1>6, <1>7
  <2>3. Kind(j) \in {"prompt", "reply", "summary"}
    BY <1>3 DEF IsStep
  <2>4. j <= LastMessage(y)
    BY <2>2, <2>3, LastMessageIs
  <2> HIDE DEF a
  <2> QED BY <1>3, <1>8, <1>11, <2>1, <2>4
<1>14. CASE file[y].parent # None
  <2>1. a = file[y].parent
    BY <1>12, <1>14 DEF WellLinked
  <2>2. a # None /\ a < y - 1 /\ a \in Nat
    <3> HIDE DEF a
    <3> QED BY <1>3, <1>6, <1>7, <1>8, <1>9, <1>11, <1>14, <2>1 DEF None
  <2>3. Time(a) < Time(a + 1)
    BY <1>6, <2>1, <2>2 DEF ForksApart
  <2>4. a \in DOMAIN file /\ a + 1 \in DOMAIN file /\ a + 1 <= j
    <3> HIDE DEF a
    <3> QED BY <1>1, <1>3, <1>6, <1>11, <2>2 DEF None
  <2>5. Time(a + 1) <= Time(j)
    <3>1. a + 1 \in 1 .. j
      <4> HIDE DEF a
      <4> QED BY <1>1, <1>3, <2>2, <2>4
    <3> HIDE DEF a
    <3> QED BY <1>12, <3>1 DEF WellTimed
  <2>6. Time(x) <= Time(a)
    <3>1. WellTimed(a) /\ x \in 1 .. a
      <4> HIDE DEF a
      <4> QED BY <1>1, <1>3, <1>9, <2>2, <2>4 DEF FileInv
    <3> HIDE DEF a
    <3> QED BY <3>1 DEF WellTimed
  <2>7. \A k \in DOMAIN file : Time(k) \in Nat
    <3>1. \A k \in DOMAIN file : file[k] \in FileRecords
      BY DEF FileInv
    <3> QED BY <3>1 DEF FileRecords, Time
  <2> HIDE DEF a
  <2> QED BY <1>3, <2>3, <2>4, <2>5, <2>6, <2>7
<1> QED BY <1>13, <1>14

-----------------------------------------------------------------------------
(* The transcript grows *)

Extends ==
  /\ file' \in Seq(FileRecords)
  /\ Len(file) <= Len(file')
  /\ \A i \in DOMAIN file : file'[i] = file[i]

LEMMA PutExtends ==
  ASSUME FileInv, NEW records \in Seq(FileRecords), Put(records)
  PROVE  /\ Extends
         /\ Len(file') = Len(file) + Len(records) /\ Len(file') <= MaxRecords
         /\ \A i \in 1 .. Len(records) : file'[Len(file) + i] = records[i]
<1>1. file \in Seq(FileRecords) /\ Len(file) \in Nat /\ DOMAIN file = 1 .. Len(file)
  BY FileLength DEF FileInv
<1>2. Len(records) \in Nat /\ file' = file \o records /\ Len(file) + Len(records) <= MaxRecords
  BY DEF Put
<1>3. /\ file' \in Seq(FileRecords) /\ Len(file') = Len(file) + Len(records)
      /\ \A i \in 1 .. Len(file) + Len(records) :
           file'[i] = IF i <= Len(file) THEN file[i] ELSE records[i - Len(file)]
  BY <1>1, <1>2, ConcatProperties
<1>4. \A i \in DOMAIN file : file'[i] = file[i]
  BY <1>1, <1>2, <1>3
<1>5. \A i \in 1 .. Len(records) : file'[Len(file) + i] = records[i]
  BY <1>1, <1>2, <1>3
<1> QED BY <1>1, <1>2, <1>3, <1>4, <1>5 DEF Extends

\* What was written stays.
LEMMA OldRecords ==
  ASSUME FileInv, Extends
  PROVE  /\ Len(file') \in Nat /\ DOMAIN file' = 1 .. Len(file') /\ DOMAIN file \subseteq DOMAIN file'
         /\ \A i \in DOMAIN file : /\ Kind(i)' = Kind(i) /\ Time(i)' = Time(i)
                                   /\ IsStep(i)' = IsStep(i)
                                   /\ WellLinked(i)' /\ WellTimed(i)'
         /\ \A i \in 1 .. Len(file) + 1 : LastMessage(i)' = LastMessage(i)
<1>1. /\ Len(file) \in Nat /\ DOMAIN file = 1 .. Len(file) /\ Len(file') \in Nat
      /\ DOMAIN file' = 1 .. Len(file') /\ DOMAIN file \subseteq DOMAIN file'
  BY FileLength DEF Extends
<1>2. \A i \in DOMAIN file : Kind(i)' = Kind(i) /\ Time(i)' = Time(i) /\ IsStep(i)' = IsStep(i)
  BY DEF Extends, Kind, Time, IsStep
<1>3. ASSUME NEW i \in 1 .. Len(file) + 1 PROVE LastMessage(i)' = LastMessage(i)
  <2> DEFINE S == {j \in 1 .. i - 1 : Kind(j) \in {"prompt", "reply", "summary"}}
  <2>1. \A j \in 1 .. i - 1 : j \in DOMAIN file
    BY <1>1
  <2>2. S' = S
    BY <1>2, <2>1
  <2>3. LastMessage(i) = LastOf(S) /\ LastMessage(i)' = LastOf(S')
    BY DEF LastMessage, LastOf, None, Max
  <2> QED BY <2>2, <2>3
<1>4. ASSUME NEW i \in DOMAIN file PROVE WellLinked(i)' /\ WellTimed(i)'
  <2>1. WellLinked(i) /\ WellTimed(i) /\ file'[i] = file[i] /\ Kind(i)' = Kind(i) /\ Time(i)' = Time(i)
        /\ i \in 1 .. Len(file) + 1 /\ file[i] \in FileRecords
    BY <1>1, <1>2 DEF FileInv, Extends
  <2>2. \A j \in 1 .. i : j \in DOMAIN file
    BY <1>1
  <2>3. LastMessage(i)' = LastMessage(i)
    BY <1>3, <2>1
  <2>0. PICK p : p = file[i].parent
    OBVIOUS
  <2>4. p \in DOMAIN file' /\ Kind(p)' = "hook" => p = i - 1
    <3> SUFFICES ASSUME p \in DOMAIN file', Kind(p)' = "hook" PROVE p = i - 1
      OBVIOUS
    <3>1. p < i /\ p \in Nat /\ i \in Nat
      BY <1>1, <2>0, <2>1 DEF WellLinked, FileRecords
    <3>2. p \in 1 .. i
      BY <1>1, <3>1
    <3>3. p \in DOMAIN file
      BY <2>2, <3>2
    <3>4. Kind(p) = "hook"
      BY <1>2, <3>3
    <3> QED BY <2>0, <2>1, <3>3, <3>4 DEF WellLinked
  <2>5. WellLinked(i)'
    BY <2>0, <2>1, <2>3, <2>4 DEF WellLinked, None, Kind
  <2>6. \A j \in 1 .. i : Time(j)' = Time(j)
    BY <1>2, <2>2
  <2>7. \A j \in 1 .. i - 1 : j \in 1 .. i
    BY <1>1
  <2>8. WellTimed(i)'
    BY <2>1, <2>6, <2>7 DEF WellTimed
  <2> QED BY <2>5, <2>8
<1> QED BY <1>1, <1>2, <1>3, <1>4

LEMMA FileStands ==
  ASSUME FileInv, Extends, Len(file') <= MaxRecords,
         \A i \in Len(file) + 1 .. Len(file') : WellLinked(i)' /\ WellTimed(i)'
  PROVE  FileInv'
<1>1. Len(file') \in Nat /\ DOMAIN file' = 1 .. Len(file')
  BY OldRecords
<1>2. Len(file) \in Nat /\ DOMAIN file = 1 .. Len(file)
  BY FileLength
<1>3. ASSUME NEW i \in DOMAIN file' PROVE WellLinked(i)' /\ WellTimed(i)'
  <2>1. i \in DOMAIN file \/ i \in Len(file) + 1 .. Len(file')
    BY <1>1, <1>2
  <2> QED BY <2>1, OldRecords
<1> QED BY <1>3 DEF FileInv, Extends

LEMMA LastTimeIs ==
  ASSUME FileInv
  PROVE  /\ LastTime \in Nat /\ LastTime <= Len(file)
         /\ \A i \in DOMAIN file : Time(i) \in Nat /\ Time(i) <= LastTime
<1>1. file \in Seq(FileRecords) /\ Len(file) \in Nat /\ DOMAIN file = 1 .. Len(file)
  BY FileLength DEF FileInv
<1>2. \A i \in DOMAIN file : Time(i) \in Nat
  <2>1. \A i \in DOMAIN file : file[i] \in FileRecords
    BY <1>1
  <2> QED BY <2>1 DEF FileRecords, Time
<1>3. CASE file = <<>>
  <2>1. Len(file) = 0 /\ LastTime = 0
    BY <1>3 DEF LastTime
  <2> QED BY <1>1, <1>2, <2>1
<1>4. CASE file # <<>>
  <2>1. Len(file) # 0
    BY <1>1, <1>4, EmptySeq
  <2>2. Len(file) \in DOMAIN file /\ LastTime = Time(Len(file))
    BY <1>1, <1>4, <2>1 DEF LastTime, Last, Time
  <2>3. WellTimed(Len(file))
    BY <2>2 DEF FileInv
  <2> QED BY <1>1, <1>2, <2>2, <2>3 DEF WellTimed
<1> QED BY <1>3, <1>4

\* A record that is put to a transcript, as the next one.
FitsIn(record) ==
  LET n == Len(file) + 1 IN
  /\ record \in FileRecords
  /\ record.parent < n /\ record.after < n
  /\ record.kind = "hook" => record.parent = n - 1
  /\ record.parent \in DOMAIN file /\ Kind(record.parent) = "hook" => record.parent = n - 1
  /\ record.parent = None => record.kind # "summary" /\ record.after = LastMessage(n)
  /\ record.parent # None => record.after = record.parent
  /\ record.time \in {LastTime, LastTime + 1} \ {0}
  /\ record.time = LastTime => record.parent = n - 1

LEMMA FitsWell ==
  ASSUME FileInv, Extends, Len(file) + 1 <= Len(file'),
         NEW n, n = Len(file) + 1,
         NEW record, FitsIn(record), file'[n] = record
  PROVE  WellLinked(n)' /\ WellTimed(n)'
<1>1. Len(file) \in Nat /\ DOMAIN file = 1 .. Len(file) /\ n \in Nat /\ n \in 1 .. Len(file) + 1
  BY FileLength
<1>2. /\ Len(file') \in Nat /\ DOMAIN file' = 1 .. Len(file') /\ DOMAIN file \subseteq DOMAIN file'
      /\ \A i \in DOMAIN file : Kind(i)' = Kind(i) /\ Time(i)' = Time(i)
      /\ LastMessage(n)' = LastMessage(n)
  BY <1>1, OldRecords
<1>3. /\ LastTime \in Nat /\ LastTime <= Len(file)
      /\ \A i \in DOMAIN file : Time(i) \in Nat /\ Time(i) <= LastTime
  BY LastTimeIs
<1>0. PICK p : p = record.parent
  OBVIOUS
<1>4. /\ p = file'[n].parent /\ file'[n].after = record.after /\ Kind(n)' = record.kind
      /\ Time(n)' = record.time
  BY <1>0 DEF Kind, Time
<1>5. p \in DOMAIN file' /\ Kind(p)' = "hook" => p = n - 1
  <2> SUFFICES ASSUME p \in DOMAIN file', Kind(p)' = "hook" PROVE p = n - 1
    OBVIOUS
  <2>1. p < n /\ p \in Nat
    BY <1>0 DEF FitsIn, FileRecords
  <2>2. p \in DOMAIN file
    BY <1>1, <1>2, <2>1
  <2>3. Kind(p) = "hook"
    BY <1>2, <2>2
  <2> QED BY <1>0, <2>2, <2>3 DEF FitsIn
<1>6. WellLinked(n)'
  BY <1>0, <1>2, <1>4, <1>5 DEF WellLinked, FitsIn, None
<1>7. WellTimed(n)'
  <2>1. \A j \in 1 .. n : j # n => j \in DOMAIN file
    BY <1>1
  <2>2. \A j \in 1 .. n - 1 : j \in DOMAIN file /\ j \in 1 .. n
    BY <1>1
  <2>3. Time(n)' \in Nat /\ 1 <= Time(n)' /\ Time(n)' <= n /\ LastTime <= Time(n)'
    BY <1>1, <1>3, <1>4 DEF FitsIn
  <2>4. \A j \in 1 .. n : Time(j)' <= Time(n)'
    <3> SUFFICES ASSUME NEW j \in 1 .. n PROVE Time(j)' <= Time(n)'
      OBVIOUS
    <3>1. CASE j = n
      BY <2>3, <3>1
    <3>2. CASE j # n
      <4>1. j \in DOMAIN file
        BY <2>1, <3>2
      <4>2. Time(j)' = Time(j) /\ Time(j) \in Nat /\ Time(j) <= LastTime
        BY <1>2, <1>3, <4>1
      <4> QED BY <1>3, <2>3, <4>2
    <3> QED BY <3>1, <3>2
  <2>5. \A j \in 1 .. n - 1 : Time(j)' = Time(n)' => p = n - 1
    <3> SUFFICES ASSUME NEW j \in 1 .. n - 1, Time(j)' = Time(n)' PROVE p = n - 1
      OBVIOUS
    <3>1. Time(j)' <= LastTime
      BY <1>2, <1>3, <2>2
    <3>2. record.time = LastTime
      BY <1>3, <1>4, <2>3, <3>1
    <3> QED BY <1>0, <3>2 DEF FitsIn
  <2> QED BY <1>4, <2>3, <2>4, <2>5 DEF WellTimed
<1> QED BY <1>6, <1>7

\* One more record.
LEMMA OneRecord ==
  ASSUME FileInv, NEW record, FitsIn(record), Put(<<record>>)
  PROVE  /\ FileInv' /\ Extends /\ Len(file') = Len(file) + 1
         /\ file'[Len(file) + 1] = record
<1>1. record \in FileRecords /\ <<record>> \in Seq(FileRecords) /\ Len(<<record>>) = 1
  BY DEF FitsIn
<1>2. /\ Extends
      /\ Len(file') = Len(file) + 1 /\ Len(file') <= MaxRecords
      /\ \A i \in 1 .. 1 : file'[Len(file) + i] = <<record>>[i]
  BY <1>1, PutExtends
<1>3. file'[Len(file) + 1] = record /\ Len(file) \in Nat
  BY <1>2, FileLength
<1>4. \A i \in Len(file) + 1 .. Len(file') : i = Len(file) + 1
  BY <1>2, <1>3
<1>0. PICK n : n = Len(file) + 1
  OBVIOUS
<1>5. WellLinked(n)' /\ WellTimed(n)'
  BY <1>0, <1>2, <1>3, FitsWell
<1>6. \A i \in Len(file) + 1 .. Len(file') : WellLinked(i)' /\ WellTimed(i)'
  BY <1>0, <1>4, <1>5
<1>7. FileInv'
  BY <1>2, <1>6, FileStands
<1> QED BY <1>2, <1>3, <1>7

\* A compaction adds two records that fit.
LEMMA CompactFits ==
  ASSUME FileInv, Compact
  PROVE  /\ FileInv' /\ Extends /\ Len(file') = Len(file) + 2
         /\ file'[Len(file) + 1].after = LastMessage(Len(file) + 1)
         /\ file'[Len(file) + 2].after = Len(file) + 1
         /\ file'[Len(file) + 1].parent = None /\ file'[Len(file) + 2].parent = Len(file) + 1
         /\ file'[Len(file) + 1].kind = "note" /\ file'[Len(file) + 2].kind = "summary"
<1> DEFINE n == Len(file) + 1
           r1 == [parent |-> None, after |-> LastMessage(n), time |-> LastTime + 1, kind |-> "note"]
           r2 == [parent |-> n, after |-> n, time |-> LastTime + 1, kind |-> "summary"]
<1>1. /\ Len(file) \in Nat /\ DOMAIN file = 1 .. Len(file) /\ n \in Nat
      /\ LastTime \in Nat /\ LastTime <= Len(file)
      /\ \A i \in DOMAIN file : Time(i) \in Nat /\ Time(i) <= LastTime
      /\ LastMessage(n) \in 0 .. n - 1
  BY FileLength, LastTimeIs, LastMessageIs
<1>2. r1 \in FileRecords /\ r2 \in FileRecords
  <2>1. LastMessage(n) \in Nat /\ LastTime + 1 \in Nat /\ None \in Nat /\ n \in Nat
        /\ "note" \in Kinds /\ "summary" \in Kinds
    BY <1>1 DEF None, Kinds
  <2> HIDE DEF n
  <2> QED BY <2>1 DEF FileRecords
<1>3. FitsIn(r1)
  BY <1>1, <1>2 DEF FitsIn, None
<1>4. Put(<<r1, r2>>)
  BY DEF Compact
<1> HIDE DEF r1, r2
<1>5. <<r1, r2>> \in Seq(FileRecords) /\ Len(<<r1, r2>>) = 2 /\ <<r1, r2>>[1] = r1 /\ <<r1, r2>>[2] = r2
  BY <1>2
<1>6. /\ Extends /\ Len(file') = Len(file) + 2 /\ Len(file') <= MaxRecords
      /\ \A i \in 1 .. 2 : file'[Len(file) + i] = <<r1, r2>>[i]
  BY <1>4, <1>5, PutExtends
<1>7. file'[Len(file) + 1] = r1 /\ file'[Len(file) + 2] = r2
  BY <1>5, <1>6
<1>8. PICK k : k = n
  OBVIOUS
<1>9. PICK m : m = n + 1
  OBVIOUS
<1>10. k = Len(file) + 1 /\ m = Len(file) + 2 /\ k \in Nat /\ m \in Nat /\ m = k + 1
  BY <1>1, <1>8, <1>9
<1>11. WellLinked(k)' /\ WellTimed(k)'
  BY <1>3, <1>6, <1>7, <1>10, FitsWell
<1>12. /\ file'[m].parent = k /\ file'[m].after = k /\ Kind(m)' = "summary"
       /\ Time(m)' = LastTime + 1 /\ Time(k)' = LastTime + 1
  BY <1>7, <1>8, <1>10 DEF r1, r2, Kind, Time
<1>13. WellLinked(m)'
  BY <1>10, <1>12, <1>1 DEF WellLinked, None
<1>14. WellTimed(m)'
  <2>1. \A i \in DOMAIN file : Time(i)' = Time(i)
    BY <1>6, OldRecords
  <2>2. \A j \in 1 .. m : j \in DOMAIN file \/ j = k \/ j = m
    BY <1>1, <1>10
  <2>3. \A j \in 1 .. m : Time(j)' <= Time(m)'
    <3> SUFFICES ASSUME NEW j \in 1 .. m PROVE Time(j)' <= Time(m)'
      OBVIOUS
    <3>1. CASE j \in DOMAIN file
      <4>1. Time(j)' \in Nat /\ Time(j)' <= LastTime
        BY <1>1, <2>1, <3>1
      <4> QED BY <1>1, <1>12, <4>1
    <3>2. CASE j = k \/ j = m
      BY <1>1, <1>12, <3>2
    <3> QED BY <2>2, <3>1, <3>2
  <2>4. 1 <= Time(m)' /\ Time(m)' <= m
    BY <1>1, <1>10, <1>12
  <2> QED BY <1>10, <1>12, <2>3, <2>4 DEF WellTimed
<1>15. \A i \in Len(file) + 1 .. Len(file') : i = k \/ i = m
  BY <1>1, <1>6, <1>10
<1>16. FileInv'
  BY <1>6, <1>11, <1>13, <1>14, <1>15, FileStands
<1>17. r1.after = LastMessage(n) /\ r2.after = n /\ r1.parent = None /\ r2.parent = n
       /\ r1.kind = "note" /\ r2.kind = "summary"
  BY DEF r1, r2
<1> QED BY <1>6, <1>7, <1>16, <1>17

\* The branches of the records that were there stay as they are.
LEMMA OldBranches ==
  ASSUME FileInv, FileInv', Extends
  PROVE  \A h \in 0 .. Len(file) : On(h)' = On(h) /\ StepsOn(h)' = StepsOn(h)
<1>1. Len(file) \in Nat /\ DOMAIN file = 1 .. Len(file)
  BY FileLength
<1>2. /\ DOMAIN file \subseteq DOMAIN file'
      /\ \A i \in DOMAIN file : IsStep(i)' = IsStep(i) /\ file'[i] = file[i]
  BY OldRecords DEF Extends
<1>3. On(None)' = {} /\ \A h \in DOMAIN file' : \A a : a = file'[h].after => On(h)' = On(a)' \cup {h}
  <2>1. OnLinked'
    BY OnIsLinked, PTL
  <2> QED BY <2>1 DEF OnLinked, None
<1>4. On(None) = {} /\ \A h \in DOMAIN file : On(h) = On(file[h].after) \cup {h}
  BY OnIs
<1>5. \A h \in 0 .. Len(file) : On(h) \subseteq 1 .. h
  BY OnIs
<1> DEFINE Wrong == {h \in 0 .. Len(file) : On(h)' # On(h)}
<1>6. Wrong = {}
  <2> SUFFICES ASSUME Wrong # {} PROVE FALSE
    OBVIOUS
  <2>1. PICK h \in Wrong : \A y \in Wrong : h <= y
    <3>1. Wrong \in SUBSET Nat
      BY <1>1
    <3> HIDE DEF Wrong
    <3> QED BY <3>1, LeastNat
  <2>2. h # None /\ h \in 0 .. Len(file) /\ On(h)' # On(h)
    BY <1>3, <1>4, <2>1 DEF None
  <2>3. h \in DOMAIN file /\ h \in DOMAIN file' /\ h \in Nat
    BY <1>1, <1>2, <2>2 DEF None
  <2>4. PICK a : a = file[h].after
    OBVIOUS
  <2>5. a \in 0 .. h - 1
    BY <2>3, <2>4, BranchLinks DEF Downward
  <2>6. a \in 0 .. Len(file) /\ ~(h <= a)
    BY <1>1, <2>3, <2>5
  <2>7. On(a)' = On(a)
    BY <2>1, <2>6
  <2>8. On(h)' = On(a)' \cup {h}
    BY <1>2, <1>3, <2>3, <2>4
  <2>9. On(h) = On(a) \cup {h}
    BY <1>4, <2>3, <2>4
  <2> QED BY <2>2, <2>7, <2>8, <2>9
<1>7. ASSUME NEW h \in 0 .. Len(file) PROVE StepsOn(h)' = StepsOn(h)
  <2>1. On(h)' = On(h) /\ On(h) \subseteq DOMAIN file
    BY <1>1, <1>5, <1>6
  <2>2. \A i \in On(h) : i \in AllSteps' <=> i \in AllSteps
    BY <1>2, <2>1 DEF AllSteps
  <2> QED BY <2>1, <2>2 DEF StepsOn
<1> QED BY <1>6, <1>7

\* No step after the branch of h has another past than it.
PastIsShared(h) ==
  \A i \in On(h) : \A j \in i + 1 .. Len(file) : IsStep(j) => UpTo(StepsOn(j), i) = StepsOn(i)

LEMMA NextSharesPast ==
  ASSUME FileInv, FileInv', Extends, NEW n, n = Len(file) + 1, n \in DOMAIN file',
         NEW a \in 0 .. Len(file), file'[n].after = a, PastIsShared(a)
  PROVE  SharesPast(n)'
<1>1. Len(file) \in Nat /\ DOMAIN file = 1 .. Len(file) /\ n \in Nat
  BY FileLength
<1>2. On(n)' = On(a)' \cup {n}
  <2>1. OnLinked'
    BY OnIsLinked, PTL
  <2> QED BY <2>1 DEF OnLinked
<1>3. On(a)' = On(a) /\ On(a) \subseteq 1 .. Len(file)
  <2>1. On(a) \subseteq 1 .. a
    BY OnIs
  <2> QED BY <1>1, <2>1, OldBranches
<1> SUFFICES ASSUME NEW i \in On(n)', NEW j \in i + 1 .. n - 1, IsStep(j)'
             PROVE  UpTo(StepsOn(j)', i) = StepsOn(i)'
  BY DEF SharesPast, UpTo
<1>4. i \in On(a)
  <2>1. i # n
    BY <1>1
  <2> QED BY <1>2, <1>3, <2>1
<1>5. i \in 1 .. Len(file) /\ j \in i + 1 .. Len(file) /\ j \in DOMAIN file
  BY <1>1, <1>3, <1>4
<1>6. IsStep(j)
  BY <1>5, OldRecords
<1>7. UpTo(StepsOn(j), i) = StepsOn(i)
  BY <1>4, <1>5, <1>6 DEF PastIsShared
<1>8. StepsOn(j)' = StepsOn(j) /\ StepsOn(i)' = StepsOn(i)
  <2>1. i \in 0 .. Len(file) /\ j \in 0 .. Len(file)
    BY <1>1, <1>5
  <2> QED BY <2>1, OldBranches
<1> QED BY <1>7, <1>8

\* Going on after the last message keeps to the past.
LEMMA LastSharesPast ==
  ASSUME FileInv, NoReturn, NEW a \in 0 .. Len(file), \A j \in AllSteps : j <= a
  PROVE  PastIsShared(a)
<1>1. Len(file) \in Nat /\ DOMAIN file = 1 .. Len(file)
  BY FileLength
<1>2. On(a) \subseteq 1 .. a
  BY OnIs
<1> SUFFICES ASSUME NEW i \in On(a), NEW j \in i + 1 .. Len(file), IsStep(j)
             PROVE  UpTo(StepsOn(j), i) = StepsOn(i)
  BY DEF PastIsShared
<1>3. i \in Nat /\ j \in DOMAIN file /\ j <= a /\ i < j /\ a \in DOMAIN file
  <2>1. i \in Nat /\ j \in DOMAIN file
    BY <1>1, <1>2
  <2>2. j <= a
    BY <2>1 DEF AllSteps
  <2> QED BY <1>1, <2>1, <2>2
<1>4. CASE j = a
  <2>1. On(i) = UpTo(On(a), i)
    BY BranchCut
  <2> QED BY <1>4, <2>1 DEF StepsOn, UpTo
<1>5. CASE j # a
  <2>1. j \in i + 1 .. a - 1
    BY <1>1, <1>3, <1>5
  <2>2. SharesPast(a)
    BY <1>3 DEF NoReturn
  <2> QED BY <2>1, <2>2 DEF SharesPast
<1> QED BY <1>4, <1>5

LEMMA SayGrows ==
  ASSUME FileInv, NEW kind \in Kinds \ {"summary"}, NEW time \in {LastTime, LastTime + 1} \ {0},
         Say(kind, time)
  PROVE  /\ FileInv' /\ Extends /\ Len(file') = Len(file) + 1
         /\ file'[Len(file) + 1] = [parent |-> Len(file), after |-> Len(file),
                                    time |-> time, kind |-> kind]
<1> DEFINE record == [parent |-> Len(file), after |-> Len(file), time |-> time, kind |-> kind]
<1>1. Len(file) \in Nat /\ LastTime \in Nat
  BY FileLength, LastTimeIs
<1>2. record \in FileRecords
  BY <1>1 DEF FileRecords
<1>3. Len(file) = None => LastMessage(Len(file) + 1) = None
  <2>1. LastMessage(Len(file) + 1) \in 0 .. (Len(file) + 1) - 1
    BY <1>1, LastMessageIs
  <2> QED BY <1>1, <2>1 DEF None
<1>4. FitsIn(record)
  BY <1>1, <1>2, <1>3 DEF FitsIn
<1>5. Put(<<record>>)
  BY DEF Say
<1> HIDE DEF record
<1>6. FileInv' /\ Extends /\ Len(file') = Len(file) + 1 /\ file'[Len(file) + 1] = record
  BY <1>4, <1>5, OneRecord
<1> QED BY <1>6 DEF record

LEMMA BranchGrows ==
  ASSUME FileInv, NEW kind \in {"reply", "note"}, NEW parent \in None .. Len(file) - 1,
         parent \notin {j \in DOMAIN file : Kind(j) = "hook"}, BranchOff(kind, parent)
  PROVE  /\ FileInv' /\ Extends /\ Len(file') = Len(file) + 1
         /\ file'[Len(file) + 1].parent = parent
         /\ file'[Len(file) + 1].after = IF parent = None THEN LastMessage(Len(file) + 1) ELSE parent
         /\ file'[Len(file) + 1].time = LastTime + 1 /\ file'[Len(file) + 1].kind = kind
<1> DEFINE after == IF parent = None THEN LastMessage(Len(file) + 1) ELSE parent
           record == [parent |-> parent, time |-> LastTime + 1, kind |-> kind, after |-> after]
<1>1. Len(file) \in Nat /\ LastTime \in Nat /\ parent \in 0 .. Len(file) - 1
  BY FileLength, LastTimeIs DEF None
<1>2. LastMessage(Len(file) + 1) \in 0 .. (Len(file) + 1) - 1
  BY <1>1, LastMessageIs
<1>3. after \in Nat /\ after < Len(file) + 1
  BY <1>1, <1>2
<1> HIDE DEF after
<1>4. record \in FileRecords
  BY <1>1, <1>3 DEF FileRecords, Kinds
<1>5. FitsIn(record)
  BY <1>1, <1>3, <1>4 DEF FitsIn, after, None
<1>6. Put(<<record>>)
  BY DEF BranchOff, after
<1> HIDE DEF record
<1>7. FileInv' /\ Extends /\ Len(file') = Len(file) + 1 /\ file'[Len(file) + 1] = record
  BY <1>5, <1>6, OneRecord
<1>8. record.parent = parent /\ record.after = after /\ record.time = LastTime + 1 /\ record.kind = kind
  BY DEF record
<1> QED BY <1>7, <1>8 DEF after

\* What a writer that spoils nothing sees to.
Later ==
  \A j \in DOMAIN file' \ DOMAIN file :
    IsStep(j)' => LastTime < Time(j)' \/ (Time(j)' = LastTime /\ ~Taken(LastTime))
WritesWell == FileInv' /\ Extends /\ ForksApart' /\ NoReturn' /\ Later

\* Forks stay apart and the past stays shared, if this is so of the new records.
LEMMA ForksStand ==
  ASSUME FileInv, FileInv', Extends, ForksApart,
         \A i \in DOMAIN file' \ DOMAIN file : \A p :
           p = file'[i].parent /\ p # None /\ p < i - 1 =>
             p \in DOMAIN file /\ p + 1 \in DOMAIN file /\ Time(p) < Time(p + 1)
  PROVE  ForksApart'
<1>1. Len(file) \in Nat /\ DOMAIN file = 1 .. Len(file)
  BY FileLength
<1>2. \A i \in DOMAIN file : Time(i)' = Time(i)
  BY OldRecords
<1> SUFFICES ASSUME NEW i \in DOMAIN file', NEW p, p = file'[i].parent, p # None, p < i - 1
             PROVE  Time(p)' < Time(p + 1)'
  BY DEF ForksApart, None, Time
<1>3. p \in DOMAIN file /\ p + 1 \in DOMAIN file /\ Time(p) < Time(p + 1)
  <2>1. CASE i \in DOMAIN file
    <3>1. file[i] \in FileRecords /\ p = file[i].parent /\ i \in Nat
      BY <1>1, <2>1 DEF FileInv, Extends
    <3>2. p \in Nat
      BY <3>1 DEF FileRecords
    <3>3. p \in DOMAIN file /\ p + 1 \in DOMAIN file
      BY <1>1, <2>1, <3>1, <3>2 DEF None
    <3> QED BY <2>1, <3>1, <3>3 DEF ForksApart
  <2>2. CASE i \notin DOMAIN file
    BY <2>2
  <2> QED BY <2>1, <2>2
<1> QED BY <1>2, <1>3

LEMMA PastStands ==
  ASSUME FileInv, FileInv', Extends, NoReturn,
         \A n \in DOMAIN file' \ DOMAIN file : SharesPast(n)'
  PROVE  NoReturn'
<1>1. Len(file) \in Nat /\ DOMAIN file = 1 .. Len(file)
  BY FileLength
<1>2. ASSUME NEW n \in DOMAIN file PROVE SharesPast(n)'
  <2>1. n \in 0 .. Len(file) /\ On(n) \subseteq 1 .. n
    BY <1>1, OnIs
  <2>2. On(n)' = On(n)
    BY <2>1, OldBranches
  <2> SUFFICES ASSUME NEW i \in On(n), NEW j \in i + 1 .. n - 1, IsStep(j)'
               PROVE  UpTo(StepsOn(j)', i) = StepsOn(i)'
    BY <2>2 DEF SharesPast, UpTo
  <2>3. i \in 0 .. Len(file) /\ j \in 0 .. Len(file) /\ j \in DOMAIN file
    BY <1>1, <2>1
  <2>4. IsStep(j)
    BY <2>3, OldRecords
  <2>5. UpTo(StepsOn(j), i) = StepsOn(i)
    BY <2>4 DEF NoReturn, SharesPast
  <2> QED BY <2>3, <2>5, OldBranches
<1> QED BY <1>2 DEF NoReturn

LEMMA SayWrites ==
  ASSUME FileInv, ForksApart, NoReturn,
         NEW kind \in Kinds \ {"summary"}, NEW time \in {LastTime, LastTime + 1} \ {0},
         Say(kind, time), time = LastTime => ~Taken(time)
  PROVE  WritesWell
<1>1. /\ FileInv' /\ Extends /\ Len(file') = Len(file) + 1
      /\ file'[Len(file) + 1] = [parent |-> Len(file), after |-> Len(file),
                                 time |-> time, kind |-> kind]
  BY SayGrows
<1>2. PICK n : n = Len(file) + 1
  OBVIOUS
<1>3. /\ Len(file) \in Nat /\ DOMAIN file = 1 .. Len(file) /\ DOMAIN file' = 1 .. Len(file')
      /\ LastTime \in Nat
  BY <1>1, FileLength, OldRecords, LastTimeIs
<1>4. \A i \in DOMAIN file' \ DOMAIN file : i = n
  BY <1>1, <1>2, <1>3
<1>5. file'[n].parent = Len(file) /\ file'[n].after = Len(file) /\ Time(n)' = time /\ n \in DOMAIN file'
  BY <1>1, <1>2, <1>3 DEF Time
<1>6. ForksApart'
  <2>1. ~(Len(file) < n - 1)
    BY <1>2, <1>3
  <2> QED BY <1>1, <1>4, <1>5, <2>1, ForksStand
<1>7. NoReturn'
  <2>1. Len(file) \in 0 .. Len(file) /\ \A j \in AllSteps : j <= Len(file)
    BY <1>3 DEF AllSteps
  <2>2. PICK a : a = Len(file)
    OBVIOUS
  <2>3. PastIsShared(a)
    BY <2>1, <2>2, LastSharesPast
  <2>4. SharesPast(n)'
    BY <1>1, <1>2, <1>5, <2>1, <2>2, <2>3, NextSharesPast
  <2> QED BY <1>1, <1>4, <2>4, PastStands
<1>8. Later
  BY <1>3, <1>4, <1>5 DEF Later
<1> QED BY <1>1, <1>6, <1>7, <1>8 DEF WritesWell

LEMMA StepsAreMessages ==
  ASSUME FileInv
  PROVE  \A j \in AllSteps : j <= LastMessage(Len(file) + 1)
<1> SUFFICES ASSUME NEW j \in AllSteps PROVE j <= LastMessage(Len(file) + 1)
  OBVIOUS
<1>1. PICK n : n = Len(file) + 1
  OBVIOUS
<1>2. n \in 1 .. Len(file) + 1 /\ j \in 1 .. n - 1 /\ IsStep(j)
  BY <1>1, FileLength DEF AllSteps
<1>3. Kind(j) \in {"prompt", "reply", "summary"}
  BY <1>2 DEF IsStep
<1> QED BY <1>1, <1>2, <1>3, LastMessageIs

LEMMA BranchWrites ==
  ASSUME FileInv, ForksApart, NoReturn,
         NEW kind \in {"reply", "note"}, NEW parent \in None .. Len(file) - 1,
         parent \notin {j \in DOMAIN file : Kind(j) = "hook"}, BranchOff(kind, parent),
         parent # None => Time(parent) # Time(parent + 1), ~TakenUpAgain(parent)
  PROVE  WritesWell
<1>1. /\ FileInv' /\ Extends /\ Len(file') = Len(file) + 1
      /\ file'[Len(file) + 1].parent = parent
      /\ file'[Len(file) + 1].after = IF parent = None THEN LastMessage(Len(file) + 1) ELSE parent
      /\ file'[Len(file) + 1].time = LastTime + 1
  BY BranchGrows
<1>2. PICK n : n = Len(file) + 1
  OBVIOUS
<1>3. /\ Len(file) \in Nat /\ DOMAIN file = 1 .. Len(file) /\ DOMAIN file' = 1 .. Len(file')
      /\ LastTime \in Nat /\ parent \in 0 .. Len(file) - 1
  BY <1>1, FileLength, OldRecords, LastTimeIs DEF None
<1>4. \A i \in DOMAIN file' \ DOMAIN file : i = n
  BY <1>1, <1>2, <1>3
<1>5. file'[n].parent = parent /\ Time(n)' = LastTime + 1 /\ n \in DOMAIN file'
  BY <1>1, <1>2, <1>3 DEF Time
<1>6. ForksApart'
  <2>1. parent # None => /\ parent \in DOMAIN file /\ parent + 1 \in DOMAIN file
                         /\ parent \in 1 .. parent + 1 
    BY <1>3 DEF None
  <2>2. parent # None => Time(parent) < Time(parent + 1)
    <3> SUFFICES ASSUME parent # None PROVE Time(parent) < Time(parent + 1)
      OBVIOUS
    <3>1. WellTimed(parent + 1)
      BY <2>1 DEF FileInv
    <3>2. Time(parent) <= Time(parent + 1)
      BY <2>1, <3>1 DEF WellTimed
    <3>3. Time(parent) \in Nat /\ Time(parent + 1) \in Nat
      BY <2>1, LastTimeIs
    <3> QED BY <3>2, <3>3
  <2> QED BY <1>1, <1>4, <1>5, <2>1, <2>2, ForksStand
<1>7. PICK a : a = file'[n].after
  OBVIOUS
<1>8. a \in 0 .. Len(file) /\ PastIsShared(a)
  <2>1. CASE parent = None
    <3>1. a = LastMessage(Len(file) + 1)
      BY <1>1, <1>2, <1>7, <2>1
    <3>2. a \in 0 .. Len(file)
      <4>1. LastMessage(Len(file) + 1) \in 0 .. (Len(file) + 1) - 1
        BY <1>3, LastMessageIs
      <4> QED BY <1>3, <3>1, <4>1
    <3> QED BY <3>1, <3>2, StepsAreMessages, LastSharesPast
  <2>2. CASE parent # None
    <3>1. a = parent /\ a \in 0 .. Len(file) /\ a \in DOMAIN file
      BY <1>1, <1>2, <1>3, <1>7, <2>2 DEF None
    <3>2. PastIsShared(a)
      <4> SUFFICES ASSUME NEW i \in On(a), NEW j \in i + 1 .. Len(file), IsStep(j)
                   PROVE  UpTo(StepsOn(j), i) = StepsOn(i)
        BY DEF PastIsShared
      <4>1. On(a) \subseteq 1 .. a
        BY <3>1, OnIs
      <4>2. i \in 0 .. Len(file) /\ j \in 0 .. Len(file)
        BY <1>3, <3>1, <4>1
      <4>3. {k \in Range(BranchSteps(j)) : k <= i} = Range(BranchSteps(i))
        BY <3>1 DEF TakenUpAgain, On
      <4>4. Range(BranchSteps(j)) = StepsOn(j) /\ Range(BranchSteps(i)) = StepsOn(i)
        BY <4>2, BranchStepsIs
      <4> QED BY <4>3, <4>4 DEF UpTo
    <3> QED BY <3>1, <3>2
  <2> QED BY <2>1, <2>2
<1>9. NoReturn'
  <2>1. SharesPast(n)'
    BY <1>1, <1>2, <1>5, <1>7, <1>8, NextSharesPast
  <2> QED BY <1>1, <1>4, <2>1, PastStands
<1>10. Later
  BY <1>3, <1>4, <1>5 DEF Later
<1> QED BY <1>1, <1>6, <1>9, <1>10 DEF WritesWell

LEMMA CompactWrites ==
  ASSUME FileInv, ForksApart, NoReturn, Compact
  PROVE  WritesWell
<1>1. /\ FileInv' /\ Extends /\ Len(file') = Len(file) + 2
      /\ file'[Len(file) + 1].after = LastMessage(Len(file) + 1)
      /\ file'[Len(file) + 2].after = Len(file) + 1
      /\ file'[Len(file) + 1].parent = None /\ file'[Len(file) + 2].parent = Len(file) + 1
      /\ file'[Len(file) + 1].kind = "note" /\ file'[Len(file) + 2].kind = "summary"
  BY CompactFits
<1>2. PICK n : n = Len(file) + 1
  OBVIOUS
<1>3. PICK m : m = Len(file) + 2
  OBVIOUS
<1>4. /\ Len(file) \in Nat /\ DOMAIN file = 1 .. Len(file) /\ DOMAIN file' = 1 .. Len(file')
      /\ n \in Nat /\ m \in Nat /\ m = n + 1 /\ n \in DOMAIN file' /\ m \in DOMAIN file'
  BY <1>1, <1>2, <1>3, FileLength, OldRecords
<1>5. \A i \in DOMAIN file' \ DOMAIN file : i = n \/ i = m
  BY <1>1, <1>2, <1>3, <1>4
<1>6. file'[n].parent = None /\ file'[m].parent = n /\ file'[m].after = n /\ ~IsStep(n)' /\ ~IsStep(m)'
  BY <1>1, <1>2, <1>3 DEF IsStep, Kind
<1>7. ForksApart'
  <2>1. ~(n < m - 1)
    BY <1>4
  <2> QED BY <1>1, <1>5, <1>6, <2>1, ForksStand
<1>8. SharesPast(n)'
  <2>1. PICK a : a = file'[n].after
    OBVIOUS
  <2>2. a = LastMessage(Len(file) + 1)
    BY <1>1, <1>2, <2>1
  <2>3. a \in 0 .. Len(file)
    <3>1. LastMessage(Len(file) + 1) \in 0 .. (Len(file) + 1) - 1
      BY <1>4, LastMessageIs
    <3> QED BY <1>4, <2>2, <3>1
  <2>4. PastIsShared(a)
    BY <2>2, <2>3, StepsAreMessages, LastSharesPast
  <2> QED BY <1>1, <1>2, <1>4, <2>1, <2>3, <2>4, NextSharesPast
<1>9. SharesPast(m)'
  <2>1. On(m)' = On(n)' \cup {m}
    <3>1. OnLinked'
      BY <1>1, OnIsLinked, PTL
    <3> QED BY <1>4, <1>6, <3>1 DEF OnLinked
  <2>2. On(n)' \subseteq 1 .. n
    <3>1. FileInv' => (\A h \in 0 .. Len(file) : Rising(Branch(h)) /\ On(h) \subseteq 1 .. h)'
      BY OnIs, PTL
    <3>2. \A h \in 0 .. Len(file') : On(h)' \subseteq 1 .. h
      BY <1>1, <3>1
    <3> QED BY <1>4, <3>2
  <2> SUFFICES ASSUME NEW i \in On(m)', NEW j \in i + 1 .. m - 1, IsStep(j)'
               PROVE  UpTo(StepsOn(j)', i) = StepsOn(i)'
    BY DEF SharesPast, UpTo
  <2>3. j # n
    BY <1>6
  <2>4. i # m
    BY <1>4
  <2>5. i \in On(n)' /\ j \in i + 1 .. n - 1
    BY <1>4, <2>1, <2>2, <2>3, <2>4
  <2> QED BY <1>8, <2>5 DEF SharesPast, UpTo
<1>10. NoReturn'
  BY <1>1, <1>5, <1>8, <1>9, PastStands
<1>11. Later
  BY <1>5, <1>6 DEF Later
<1> QED BY <1>1, <1>7, <1>10, <1>11 DEF WritesWell

-----------------------------------------------------------------------------
(* Syncs while the transcript grows *)

SyncRecords(n) ==
  [pc : {"idle", "starting", "locked", "looking", "cutting", "appending", "adrift"},
   full : BOOLEAN, head : 0 .. n, cutoff : 0 .. NoCut, todo : Seq(1 .. n)]

\* The types, with the length of the transcript.
LEMMA Types ==
  ASSUME FileInv, SyncTypeOK
  PROVE  /\ doc \in Seq(DOMAIN file) /\ Range(doc) \subseteq DOMAIN file
         /\ sync \in [Syncs -> SyncRecords(Len(file))]
<1>1. doc \in Seq(DOMAIN file) /\ DOMAIN file = 1 .. Len(file)
  BY FileLength DEF SyncTypeOK
<1>2. Range(doc) \subseteq DOMAIN file
  BY <1>1, RangeOfSeq
<1>3. sync \in [Syncs -> SyncRecords(Len(file))]
  BY <1>1 DEF SyncTypeOK, SyncRecords
<1> QED BY <1>1, <1>2, <1>3

\* The latest step of the document, if there is any.
LEMMA LatestIs ==
  ASSUME FileInv, SyncTypeOK, Rising(doc)
  PROVE  /\ doc = <<>> => Latest = None /\ Range(doc) = {}
         /\ doc # <<>> => Latest \in DOMAIN file /\ Latest \in Range(doc) /\ Latest # None
         /\ Latest \in 0 .. Len(file)
         /\ \A d \in Range(doc) : d <= Latest
<1>1. Range(doc) \subseteq DOMAIN file /\ DOMAIN file = 1 .. Len(file) /\ Len(file) \in Nat
  BY Types, FileLength
<1>2. CASE doc = <<>>
  BY <1>1, <1>2, EmptyRises DEF Latest, None
<1>3. CASE doc # <<>>
  <2>1. Latest = Last(doc)
    BY <1>3 DEF Latest
  <2>2. Last(doc) \in Range(doc) /\ \A y \in Range(doc) : y <= Last(doc)
    BY <1>3, RisingLast
  <2> QED BY <1>1, <1>3, <2>1, <2>2 DEF None
<1> QED BY <1>2, <1>3

LEMMA EditorKeepsSync ==
  ASSUME FileInv, SyncTypeOK, SyncInv, WritesWell, UNCHANGED <<doc, lock, sync>>
  PROVE  SyncInv'
<1>1. /\ Len(file) \in Nat /\ DOMAIN file = 1 .. Len(file)
      /\ FileInv' /\ Extends /\ ForksApart' /\ NoReturn' /\ Later
  BY FileLength DEF WritesWell
<1>2. /\ DOMAIN file \subseteq DOMAIN file' /\ DOMAIN file' = 1 .. Len(file')
      /\ \A i \in DOMAIN file : Kind(i)' = Kind(i) /\ Time(i)' = Time(i) /\ IsStep(i)' = IsStep(i)
  BY <1>1, OldRecords
<1>3. \A h \in 0 .. Len(file) : StepsOn(h)' = StepsOn(h)
  BY <1>1, OldBranches
<1>4. Range(doc) \subseteq DOMAIN file /\ sync \in [Syncs -> SyncRecords(Len(file))] /\ doc' = doc
      /\ sync' = sync /\ lock' = lock
  BY Types
<1>5. Rising(doc) /\ Range(doc) = StepsOn(Latest)
  BY DEF SyncInv, DocIsABranch
<1>6. PICK l : l = Latest
  OBVIOUS
<1>7. /\ l \in 0 .. Len(file) /\ (doc # <<>> => l \in DOMAIN file /\ l \in Range(doc)) /\ Latest' = l
  BY <1>5, <1>6, LatestIs DEF Latest, None
<1>8. LastTime \in Nat /\ \A i \in DOMAIN file : Time(i) \in Nat /\ Time(i) <= LastTime
  BY LastTimeIs
<1>9. Alone'
  BY <1>4 DEF SyncInv, Alone, Idle, None, NoCut
<1>10. DocIsABranch'
  <2>1. StepsOn(l)' = StepsOn(l)
    BY <1>3, <1>7
  <2> QED BY <1>4, <1>5, <1>6, <1>7, <2>1 DEF DocIsABranch, Rising
<1>11. TiesInHand'
  <2>1. InHand' = InHand
    BY <1>4 DEF InHand
  <2> SUFFICES ASSUME doc # <<>>, NEW j \in AllSteps', j > l, Time(j)' = Time(l)'
               PROVE  j \in InHand
    BY <1>4, <1>7, <2>1 DEF TiesInHand, Time
  <2>2. l \in Range(doc) /\ Time(l)' = Time(l) /\ Time(l) \in Nat /\ Time(l) <= LastTime
    BY <1>2, <1>7, <1>8
  <2>3. CASE j \in DOMAIN file
    <3>1. j \in AllSteps /\ Time(j) = Time(l)
      BY <1>2, <2>2, <2>3 DEF AllSteps
    <3> QED BY <1>6, <3>1 DEF SyncInv, TiesInHand
  <2>4. CASE j \notin DOMAIN file
    <3>1. j \in DOMAIN file' \ DOMAIN file /\ IsStep(j)'
      BY <2>4 DEF AllSteps
    <3>2. Time(j)' = LastTime /\ ~Taken(LastTime)
      BY <1>1, <1>8, <2>2, <3>1 DEF Later
    <3> QED BY <2>2, <3>2 DEF Taken
  <2> QED BY <2>3, <2>4
<1>12. ASSUME NEW p \in Syncs PROVE Stage(p)'
  <2>1. PICK h : h = sync[p].head
    OBVIOUS
  <2>2. PICK cutoff : cutoff = sync[p].cutoff
    OBVIOUS
  <2>3. h \in 0 .. Len(file)
    BY <1>4, <2>1 DEF SyncRecords
  <2>4. HeadIsPast(p) => HeadIsPast(p)'
    <3> SUFFICES ASSUME HeadIsPast(p), NEW j \in AllSteps', j > h
                 PROVE  Time(j)' > Time(h)'
      BY <1>2, <1>4, <2>1 DEF HeadIsPast, Time
    <3>1. h \in DOMAIN file /\ Time(h)' = Time(h) /\ Time(h) \in Nat /\ Time(h) <= LastTime
      BY <1>2, <1>8, <2>1 DEF HeadIsPast
    <3>2. CASE j \in DOMAIN file
      <4>1. j \in AllSteps /\ Time(j)' = Time(j)
        BY <1>2, <3>2 DEF AllSteps
      <4> QED BY <2>1, <3>1, <4>1 DEF HeadIsPast
    <3>3. CASE j \notin DOMAIN file
      <4>1. j \in DOMAIN file' \ DOMAIN file /\ IsStep(j)'
        BY <3>3 DEF AllSteps
      <4>2. LastTime < Time(j)' \/ (Time(j)' = LastTime /\ ~Taken(LastTime))
        BY <1>1, <4>1 DEF Later
      <4>3. h # None
        BY <1>1, <3>1 DEF None
      <4>4. Time(h) = LastTime => Taken(LastTime)
        BY <2>1, <4>3 DEF Taken
      <4>5. Time(j)' \in Nat
        <5>1. file'[j] \in FileRecords
          BY <1>1, <4>1 DEF FileInv
        <5> QED BY <5>1 DEF FileRecords, Time
      <4> QED BY <1>8, <3>1, <4>2, <4>4, <4>5
    <3> QED BY <3>2, <3>3
  <2>5. StepsOn(h)' = StepsOn(h)
    BY <1>3, <2>3
  <2>6. h \in DOMAIN file => Kind(h)' = Kind(h)
    BY <1>2
  <2>7. Range(doc) \cap Indexed(cutoff)' = Range(doc) \cap Indexed(cutoff)
    BY <1>2, <1>4 DEF Indexed
  <2>8. HeadIsPast(p) => h \in DOMAIN file
    BY <2>1 DEF HeadIsPast
  <2>9. Stage(p)
    BY DEF SyncInv
  <2>10. \A held, todo : Makes(held, todo, h)' <=> Makes(held, todo, h)
    BY <2>5 DEF Makes, Rising
  <2>11. sync'[p].pc = "looking" => \A d \in Range(doc') : d <= sync'[p].head
    BY <1>4, <2>9 DEF Stage
  <2>12. sync'[p].pc = "cutting" =>
          \/ Kind(h)' = "hook" /\ sync'[p].todo = <<>> /\ sync'[p].cutoff = All
          \/ Makes(Range(doc) \cap Indexed(cutoff), sync[p].todo, h)
    BY <1>4, <2>1, <2>2, <2>6, <2>8, <2>9 DEF Stage
  <2>13. sync'[p].pc = "appending" =>
          \/ Makes(Range(doc), sync[p].todo, h)
          \/ sync'[p].todo = <<>> /\ Kind(h)' = "hook"
          \/ sync'[p].todo = <<>> /\ ~sync'[p].full /\ ~(Range(doc) \subseteq StepsOn(h)')
    BY <1>4, <2>1, <2>5, <2>6, <2>8, <2>9 DEF Stage
  <2>14. Makes(Range(doc) \cap Indexed(cutoff), sync[p].todo, h) =>
           Makes(Range(doc) \cap Indexed(sync[p].cutoff), sync[p].todo, sync[p].head)'
    BY <1>4, <2>1, <2>2, <2>5, <2>7 DEF Makes, Rising
  <2>15. Makes(Range(doc), sync[p].todo, h) => Makes(Range(doc), sync[p].todo, sync[p].head)'
    BY <1>4, <2>1, <2>5 DEF Makes, Rising
  <2>16. sync'[p].pc \in {"looking", "cutting", "appending"} => HeadIsPast(p)'
    BY <1>4, <2>4, <2>9 DEF Stage
  <2>17. Kind(h)' = Kind(sync[p].head)' /\ StepsOn(h)' = StepsOn(sync[p].head)'
    BY <1>4, <2>1
  <2> QED BY <1>4, <2>11, <2>12, <2>13, <2>14, <2>15, <2>16, <2>17 DEF Stage, All
<1> QED BY <1>1, <1>9, <1>10, <1>11, <1>12 DEF SyncInv

-----------------------------------------------------------------------------
(* What a plan comes to *)

\* Behind a hook the branch goes on with the last record that is none.
LEMMA HookBack ==
  ASSUME FileInv
  PROVE  \A h \in Hooks : /\ HookPredecessor(h) \in 0 .. h - 1 /\ HookPredecessor(h) \notin Hooks
                          /\ On(h) \ Hooks = On(HookPredecessor(h)) \ Hooks
                          /\ HookPredecessor(h) = None => \A i \in 1 .. h : i \in Hooks
<1>1. Len(file) \in Nat /\ DOMAIN file = 1 .. Len(file) /\ Hooks \subseteq DOMAIN file
  BY FileLength DEF Hooks
<1> DEFINE Before(h) == {i \in 1 .. h - 1 : i \notin Hooks}
<1>2. ASSUME NEW h \in Hooks
      PROVE  /\ HookPredecessor(h) \in 0 .. h - 1 /\ HookPredecessor(h) \notin Hooks
             /\ HookPredecessor(h) = None \/ HookPredecessor(h) \in Before(h)
             /\ \A x \in Before(h) : x <= HookPredecessor(h)
             /\ HookPredecessor(h) = None => \A i \in 1 .. h : i \in Hooks
  <2>1. h \in DOMAIN file /\ h - 1 \in Nat /\ Before(h) \in SUBSET (1 .. h - 1) /\ h \in Nat
    BY <1>1
  <2>2. HookPredecessor(h) = LastOf(Before(h))
    BY DEF HookPredecessor
  <2>3. /\ LastOf(Before(h)) \in Nat /\ LastOf(Before(h)) <= h - 1
        /\ LastOf(Before(h)) = None \/ LastOf(Before(h)) \in Before(h)
        /\ \A x \in Before(h) : x <= LastOf(Before(h))
    <3> HIDE DEF Before
    <3> QED BY <2>1, LastOfIs
  <2>4. HookPredecessor(h) \in 0 .. h - 1 /\ HookPredecessor(h) \notin Hooks
    BY <1>1, <2>1, <2>2, <2>3 DEF None
  <2>5. ASSUME HookPredecessor(h) = None, NEW i \in 1 .. h PROVE i \in Hooks
    <3> SUFFICES ASSUME i \notin Hooks PROVE FALSE
      OBVIOUS
    <3>1. i \in Before(h)
      BY <2>1
    <3>2. i <= None
      <4> HIDE DEF Before
      <4> QED BY <2>2, <2>3, <2>5, <3>1
    <3>3. i \in Nat /\ i # 0
      BY <2>1
    <3> QED BY <3>2, <3>3 DEF None
  <2> HIDE DEF Before
  <2> QED BY <2>2, <2>3, <2>4, <2>5
<1> DEFINE Wrong == {h \in Hooks : On(h) \ Hooks # On(HookPredecessor(h)) \ Hooks}
<1>3. Wrong = {}
  <2> SUFFICES ASSUME Wrong # {} PROVE FALSE
    OBVIOUS
  <2>1. PICK h \in Wrong : \A y \in Wrong : h <= y
    <3>1. Wrong \in SUBSET Nat
      BY <1>1
    <3> HIDE DEF Wrong
    <3> QED BY <3>1, LeastNat
  <2>2. h \in Hooks /\ On(h) \ Hooks # On(HookPredecessor(h)) \ Hooks /\ h \in DOMAIN file /\ h \in Nat
    BY <1>1, <2>1
  <2>3. WellLinked(h) /\ Kind(h) = "hook"
    BY <2>2 DEF FileInv, Hooks
  <2>4. file[h].after = h - 1
    <3>1. file[h].parent = h - 1
      BY <2>3 DEF WellLinked
    <3>2. CASE h - 1 = None
      <4>1. h = 1 /\ file[h].after = LastMessage(h)
        BY <2>2, <2>3, <3>1, <3>2 DEF WellLinked, None
      <4>2. LastMessage(h) \in 0 .. h - 1
        BY <1>1, <2>2, LastMessageIs
      <4> QED BY <4>1, <4>2
    <3>3. CASE h - 1 # None
      BY <2>3, <3>1, <3>3 DEF WellLinked
    <3> QED BY <3>2, <3>3
  <2>5. On(h) = On(h - 1) \cup {h}
    BY <2>2, <2>4, OnIs
  <2>6. CASE h - 1 \in Hooks
    <3>1. Before(h) = Before(h - 1)
      BY <2>2, <2>6
    <3>2. HookPredecessor(h) = HookPredecessor(h - 1)
      BY <3>1 DEF HookPredecessor
    <3>3. On(h - 1) \ Hooks = On(HookPredecessor(h - 1)) \ Hooks
      BY <2>1, <2>2, <2>6
    <3> QED BY <2>2, <2>5, <3>2, <3>3
  <2>7. CASE h - 1 \notin Hooks
    <3>1. HookPredecessor(h) = h - 1
      <4>1. CASE h = 1
        BY <1>2, <2>2, <4>1
      <4>2. CASE h # 1
        <5>1. h - 1 \in Before(h)
          <6>1. h \in 1 .. Len(file) /\ h \in Nat
            BY <1>1, <2>2
          <6>2. h - 1 \in 1 .. h - 1
            BY <4>2, <6>1
          <6> QED BY <2>7, <6>2
        <5>2. h - 1 <= HookPredecessor(h) /\ HookPredecessor(h) \in 0 .. h - 1
          <6> HIDE DEF Before
          <6> QED BY <1>2, <2>2, <5>1
        <5> QED BY <2>2, <5>2
      <4> QED BY <4>1, <4>2
    <3> QED BY <2>2, <2>5, <3>1
  <2> QED BY <2>6, <2>7
<1> QED BY <1>2, <1>3

\* The links a sync builds leave hooks out of the branch, and nothing else.
LEMMA ParentMapIs ==
  ASSUME FileInv
  PROVE  /\ Downward(ParentMap)
         /\ \A i \in DOMAIN file : Reparented(i) \in 0 .. i - 1 /\ Reparented(i) \notin Hooks
         /\ \A i \in DOMAIN file : file[i].parent # None => ParentMap[i] = Reparented(i)
         /\ \A i \in DOMAIN file :
              /\ ParentMap[i] \notin Hooks
              /\ On(file[i].after) \ Hooks = On(ParentMap[i]) \ Hooks
<1>1. Len(file) \in Nat /\ DOMAIN file = 1 .. Len(file) /\ Hooks \subseteq DOMAIN file /\ None \notin Hooks
  BY FileLength DEF Hooks, None
<1>2. ASSUME NEW i \in DOMAIN file
      PROVE  /\ Reparented(i) \in 0 .. i - 1 /\ Reparented(i) \notin Hooks
             /\ ParentMap[i] \in 0 .. i - 1
             /\ file[i].parent # None => ParentMap[i] = Reparented(i)
             /\ ParentMap[i] \notin Hooks
             /\ On(file[i].after) \ Hooks = On(ParentMap[i]) \ Hooks
  <2>1. i \in Nat /\ WellLinked(i) /\ file[i] \in FileRecords /\ i \in 1 .. Len(file) + 1
    BY <1>1 DEF FileInv
  <2>2. ParentMap[i] = IF Reparented(i) = None /\ Kind(i) # "summary" THEN LastMessage(i) ELSE Reparented(i)
    BY DEF ParentMap
  <2>3. /\ LastMessage(i) \in 0 .. i - 1
        /\ LastMessage(i) # None => Kind(LastMessage(i)) \in {"prompt", "reply", "summary"}
    BY <2>1, LastMessageIs
  <2>4. LastMessage(i) \notin Hooks
    BY <1>1, <2>3 DEF Hooks
  <2>5. CASE file[i].parent \in Hooks
    <3>1. file[i].parent = i - 1 /\ i - 1 \in Hooks /\ file[i].after = i - 1
      BY <1>1, <2>1, <2>5 DEF WellLinked, Hooks
    <3>2. /\ HookPredecessor(i - 1) \in 0 .. (i - 1) - 1 /\ HookPredecessor(i - 1) \notin Hooks
          /\ On(i - 1) \ Hooks = On(HookPredecessor(i - 1)) \ Hooks
          /\ HookPredecessor(i - 1) = None => \A j \in 1 .. i - 1 : j \in Hooks
      BY <3>1, HookBack
    <3>3. Reparented(i) = HookPredecessor(i - 1)
      BY <3>1 DEF Reparented
    <3>4. Reparented(i) \in 0 .. i - 1
      BY <2>1, <3>2, <3>3
    <3>5. ParentMap[i] = Reparented(i)
      <4>1. CASE Reparented(i) = None /\ Kind(i) # "summary"
        <5>1. \A j \in 1 .. i - 1 : j \in Hooks
          BY <3>2, <3>3, <4>1
        <5>2. LastMessage(i) = None
          <6> SUFFICES ASSUME LastMessage(i) # None PROVE FALSE
            OBVIOUS
          <6>1. LastMessage(i) \in 1 .. i - 1
            BY <2>1, <2>3 DEF None
          <6> QED BY <2>4, <5>1, <6>1
        <5> QED BY <2>2, <4>1, <5>2
      <4>2. CASE ~(Reparented(i) = None /\ Kind(i) # "summary")
        BY <2>2, <4>2
      <4> QED BY <4>1, <4>2
    <3> QED BY <3>1, <3>2, <3>3, <3>4, <3>5
  <2>6. CASE file[i].parent \notin Hooks
    <3>1. Reparented(i) = file[i].parent
      BY <2>6 DEF Reparented
    <3>2. file[i].parent \in 0 .. i - 1
      BY <2>1 DEF WellLinked, FileRecords
    <3>3. CASE file[i].parent = None
      <4>1. ParentMap[i] = LastMessage(i) /\ file[i].after = LastMessage(i)
        BY <2>1, <2>2, <3>1, <3>3 DEF WellLinked
      <4> QED BY <2>3, <2>4, <2>6, <3>1, <3>2, <3>3, <4>1
    <3>4. CASE file[i].parent # None
      <4>1. ParentMap[i] = file[i].parent /\ file[i].after = file[i].parent
        BY <2>1, <2>2, <3>1, <3>4 DEF WellLinked
      <4> QED BY <2>6, <3>1, <3>2, <4>1
    <3> QED BY <3>3, <3>4
  <2> QED BY <2>5, <2>6
<1> QED BY <1>2 DEF Downward

\* The chain from a head down to a record of its branch.
LEMMA AncestryIs ==
  ASSUME FileInv, NEW r \in 0 .. Len(file), r \notin Hooks
  PROVE  \A h \in 0 .. Len(file) : h \notin Hooks /\ (r = None \/ r \in On(h)) =>
           /\ Rising(BuildAncestryChain(h, r))
           /\ Range(BuildAncestryChain(h, r)) = {i \in On(h) \ Hooks : i > r}
<1> DEFINE C(h) == ChainFrom(h, ParentMap, Hooks \cup {r})
           Above(h) == {i \in On(h) \ Hooks : i > r}
           Wrong == {h \in 0 .. Len(file) : /\ h \notin Hooks /\ (r = None \/ r \in On(h))
                                            /\ Range(C(h)) # Above(h)}
<1>1. Len(file) \in Nat /\ DOMAIN file = 1 .. Len(file) /\ r \in Nat
  BY FileLength
<1>2. Downward(ParentMap)
  BY ParentMapIs
<1>3. \A h \in 0 .. Len(file) :
        /\ Rising(C(h)) /\ Range(C(h)) \subseteq 1 .. h
        /\ Range(C(h)) = IF Ends(h, Hooks \cup {r}) THEN {} ELSE Range(C(ParentMap[h])) \cup {h}
  <2>1. PICK links : links = ParentMap
    OBVIOUS
  <2>2. PICK stops : stops = Hooks \cup {r}
    OBVIOUS
  <2>3. \A h \in 0 .. Len(file) :
           /\ Rising(ChainFrom(h, links, stops))
           /\ Range(ChainFrom(h, links, stops)) \subseteq 1 .. h
           /\ Range(ChainFrom(h, links, stops)) =
                IF Ends(h, stops) THEN {} ELSE Range(ChainFrom(links[h], links, stops)) \cup {h}
    BY <1>2, <2>1, ChainRises
  <2> QED BY <2>1, <2>2, <2>3
<1>4. \A h \in 0 .. Len(file) : On(h) \subseteq 1 .. h
  BY OnIs
<1> HIDE DEF C
<1>5. Wrong = {}
  <2> SUFFICES ASSUME Wrong # {} PROVE FALSE
    OBVIOUS
  <2>1. PICK h \in Wrong : \A y \in Wrong : h <= y
    <3>1. Wrong \in SUBSET Nat
      BY <1>1
    <3> HIDE DEF Wrong
    <3> QED BY <3>1, LeastNat
  <2>2. h \in 0 .. Len(file) /\ h \notin Hooks /\ (r = None \/ r \in On(h)) /\ Range(C(h)) # Above(h)
    BY <2>1
  <2>3. ~Ends(h, Hooks \cup {r})
    <3> SUFFICES ASSUME Ends(h, Hooks \cup {r}) PROVE FALSE
      OBVIOUS
    <3>1. Range(C(h)) = {}
      BY <1>3, <2>2
    <3>2. h = None \/ h = r
      BY <2>2 DEF Ends
    <3>3. Above(h) = {}
      BY <1>1, <1>4, <2>2, <3>2 DEF None
    <3> QED BY <2>2, <3>1, <3>3
  <2>4. h # None /\ h # r /\ h \in DOMAIN file /\ h \in Nat
    BY <1>1, <2>2, <2>3 DEF Ends, None
  <2>5. PICK q : q = ParentMap[h]
    OBVIOUS
  <2>6. q \in 0 .. h - 1 /\ q \notin Hooks /\ On(file[h].after) \ Hooks = On(q) \ Hooks
    BY <1>2, <2>4, <2>5, ParentMapIs DEF Downward
  <2>7. On(h) = On(file[h].after) \cup {h}
    BY <2>4, OnIs
  <2>8. On(h) \ Hooks = (On(q) \ Hooks) \cup {h}
    BY <2>2, <2>6, <2>7
  <2>9. r = None \/ r \in On(q)
    BY <2>2, <2>4, <2>8
  <2>10. Range(C(q)) = Above(q)
    <3>1. q \in 0 .. Len(file) /\ ~(h <= q)
      BY <1>1, <2>4, <2>6
    <3> HIDE DEF Above
    <3> QED BY <2>1, <2>6, <2>9, <3>1
  <2>11. Range(C(h)) = Range(C(q)) \cup {h}
    BY <1>3, <2>2, <2>3, <2>5
  <2>12. h > r
    BY <1>1, <1>4, <2>2, <2>4 DEF None
  <2>13. Above(h) = Above(q) \cup {h}
    BY <2>8, <2>12
  <2> QED BY <2>2, <2>10, <2>11, <2>13
<1> QED BY <1>3, <1>5 DEF C, BuildAncestryChain

\* From a hook nothing is built.
LEMMA NothingBehindAHook ==
  ASSUME FileInv, NEW h \in Hooks, NEW stops, Hooks \subseteq stops, NEW links, Downward(links)
  PROVE  ChainFrom(h, links, stops) = <<>>
<1>1. h \in 0 .. Len(file) /\ Ends(h, stops)
  BY FileLength DEF Ends, Hooks
<1> QED BY <1>1, ChainIs

\* What is no later than an indexed record is indexed.
LEMMA IndexedDown ==
  ASSUME FileInv, NEW end, end \in Nat, NEW i \in Indexed(end)
  PROVE  i \in DOMAIN file /\ \A j \in 1 .. i : j \in Indexed(end)
<1>1. i \in DOMAIN file /\ DOMAIN file = 1 .. Len(file) /\ Len(file) \in Nat /\ Time(i) <= end
  BY FileLength DEF Indexed
<1>2. WellTimed(i)
  BY <1>1 DEF FileInv
<1>3. \A j \in 1 .. i : j \in DOMAIN file /\ Time(j) \in Nat /\ Time(j) <= Time(i) /\ Time(i) \in Nat
  BY <1>1, <1>2, LastTimeIs DEF WellTimed
<1> QED BY <1>1, <1>3 DEF Indexed

\* The records that are no hooks and not indexed are the recent ones.
LEMMA RecentIs ==
  ASSUME FileInv, NEW end, end \in Nat
  PROVE  Recent(end) = {i \in DOMAIN file : i \notin Indexed(end) /\ i \notin Hooks}
<1> DEFINE old == Indexed(end) \ Hooks
<1>1. Len(file) \in Nat /\ DOMAIN file = 1 .. Len(file) /\ old \in SUBSET (1 .. Len(file))
  BY FileLength DEF Indexed
<1>2. PICK cut : cut = LastOf(old)
  OBVIOUS
<1>3. /\ cut \in Nat /\ cut <= Len(file) /\ (cut = None \/ cut \in old)
      /\ \A x \in old : x <= cut
  <2> HIDE DEF old
  <2> QED BY <1>1, <1>2, LastOfIs
<1>4. Recent(end) = {i \in DOMAIN file : i > cut} \ Hooks
  BY <1>2 DEF Recent
<1>5. ASSUME NEW i \in DOMAIN file, i \notin Hooks PROVE i > cut <=> i \notin Indexed(end)
  <2>1. ASSUME i > cut PROVE i \notin Indexed(end)
    <3>1. i \in Indexed(end) => i <= cut
      BY <1>3, <1>5
    <3> QED BY <1>1, <1>3, <2>1, <3>1
  <2>2. ASSUME ~(i > cut) PROVE i \in Indexed(end)
    <3>1. cut # None /\ i \in 1 .. cut
      BY <1>1, <1>3, <2>2 DEF None
    <3>2. cut \in Indexed(end)
      BY <1>3, <3>1
    <3> QED BY <3>1, <3>2, IndexedDown
  <2> QED BY <2>1, <2>2
<1> QED BY <1>4, <1>5

\* The fast path finds the records of the branch that are not indexed.
LEMMA EntriesAre ==
  ASSUME FileInv, NEW end, end \in Nat
  PROVE  \A h \in 0 .. Len(file) : h \notin Hooks =>
           /\ Rising(EntriesAfter(h, end))
           /\ Range(EntriesAfter(h, end)) = (On(h) \ Hooks) \ Indexed(end)
<1>1. Len(file) \in Nat /\ DOMAIN file = 1 .. Len(file) /\ Hooks \subseteq DOMAIN file
  BY FileLength DEF Hooks
<1>2. PICK links : links = RecentLinks(end)
  OBVIOUS
<1>3. PICK stops : stops = Hooks \cup Indexed(end)
  OBVIOUS
<1>4. /\ \A i \in DOMAIN file : Reparented(i) \in 0 .. i - 1 /\ Reparented(i) \notin Hooks
      /\ \A i \in DOMAIN file : ParentMap[i] \in 0 .. i - 1
      /\ \A i \in DOMAIN file : file[i].parent # None => ParentMap[i] = Reparented(i)
      /\ \A i \in DOMAIN file :
           /\ ParentMap[i] \notin Hooks
           /\ On(file[i].after) \ Hooks = On(ParentMap[i]) \ Hooks
  BY ParentMapIs DEF Downward
<1> DEFINE bridged == \E i \in Recent(end) : file[i].parent = None /\ Kind(i) # "summary"
<1>5. /\ bridged => links = ParentMap
      /\ ~bridged => links = [i \in DOMAIN file |-> IF Reparented(i) \in Recent(end)
                                                      THEN Reparented(i) ELSE None]
  BY <1>2 DEF RecentLinks
<1>6. Downward(links)
  <2> SUFFICES ASSUME NEW i \in DOMAIN file PROVE links[i] \in 0 .. i - 1
    BY DEF Downward
  <2>1. i \in Nat /\ i # 0
    BY <1>1
  <2>2. None \in 0 .. i - 1
    BY <2>1 DEF None
  <2> QED BY <1>4, <1>5, <2>2
<1> DEFINE C(h) == ChainFrom(h, links, stops)
           New(h) == (On(h) \ Hooks) \ Indexed(end)
           Wrong == {h \in 0 .. Len(file) : h \notin Hooks /\ Range(C(h)) # New(h)}
<1>7. \A h \in 0 .. Len(file) :
        /\ Rising(C(h)) /\ Range(C(h)) \subseteq 1 .. h
        /\ Range(C(h)) = IF Ends(h, stops) THEN {} ELSE Range(C(links[h])) \cup {h}
  BY <1>6, ChainRises
<1>8. \A h \in 0 .. Len(file) : On(h) \subseteq 1 .. h
  BY OnIs
<1>9. Recent(end) = {i \in DOMAIN file : i \notin Indexed(end) /\ i \notin Hooks}
  BY RecentIs
<1> HIDE DEF C
<1>10. \A q \in 0 .. Len(file) : q = None \/ q \in Indexed(end) => New(q) = {}
  <2> SUFFICES ASSUME NEW q \in 0 .. Len(file), q = None \/ q \in Indexed(end), NEW i \in On(q)
               PROVE  i \in Indexed(end)
    OBVIOUS
  <2>1. i \in 1 .. q
    BY <1>8
  <2>2. q # None
    BY <2>1 DEF None
  <2> QED BY <2>1, <2>2, IndexedDown
<1>11. Wrong = {}
  <2> SUFFICES ASSUME Wrong # {} PROVE FALSE
    OBVIOUS
  <2>1. PICK h \in Wrong : \A y \in Wrong : h <= y
    <3>1. Wrong \in SUBSET Nat
      BY <1>1
    <3> HIDE DEF Wrong
    <3> QED BY <3>1, LeastNat
  <2>2. h \in 0 .. Len(file) /\ h \notin Hooks /\ Range(C(h)) # New(h)
    BY <2>1
  <2>3. ~Ends(h, stops)
    <3> SUFFICES ASSUME Ends(h, stops) PROVE FALSE
      OBVIOUS
    <3>1. Range(C(h)) = {}
      BY <1>7, <2>2
    <3>2. h = None \/ h \in Indexed(end)
      BY <1>3, <2>2 DEF Ends
    <3> QED BY <1>10, <2>2, <3>1, <3>2
  <2>4. h # None /\ h \notin Indexed(end) /\ h \in DOMAIN file /\ h \in Nat
    BY <1>1, <1>3, <2>2, <2>3 DEF Ends, None
  <2>5. h \in Recent(end)
    BY <1>9, <2>2, <2>4
  <2>6. PICK q : q = ParentMap[h]
    OBVIOUS
  <2>7. q \in 0 .. h - 1 /\ q \notin Hooks /\ On(file[h].after) \ Hooks = On(q) \ Hooks
    BY <1>4, <2>4, <2>6
  <2>8. On(h) = On(file[h].after) \cup {h}
    BY <2>4, OnIs
  <2> HIDE DEF Wrong, New
  <2>9. New(h) = New(q) \cup {h}
    BY <2>2, <2>4, <2>7, <2>8 DEF New
  <2>10. q \in 0 .. Len(file) /\ ~(h <= q)
    BY <1>1, <2>4, <2>7
  <2>11. Range(C(q)) = New(q)
    BY <2>1, <2>7, <2>10 DEF Wrong
  <2>12. Range(C(h)) = Range(C(links[h])) \cup {h}
    BY <1>7, <2>2, <2>3
  <2>13. CASE links[h] = q
    BY <2>2, <2>9, <2>11, <2>12, <2>13
  <2>14. CASE links[h] # q
    <3>1. ~bridged
      BY <1>5, <2>6, <2>14
    <3>2. file[h].parent # None
      <4> SUFFICES ASSUME file[h].parent = None PROVE FALSE
        OBVIOUS
      <4>1. WellLinked(h)
        BY <2>4 DEF FileInv
      <4>2. Kind(h) # "summary"
        BY <4>1 DEF WellLinked
      <4> QED BY <2>5, <3>1, <4>2
    <3>3. q = Reparented(h)
      BY <1>4, <2>4, <2>6, <3>2
    <3>4. links[h] = IF q \in Recent(end) THEN q ELSE None
      BY <1>5, <2>4, <3>1, <3>3
    <3>5. q \notin Recent(end) /\ links[h] = None
      BY <2>14, <3>4
    <3>6. q = None \/ q \in Indexed(end)
      BY <1>1, <1>9, <2>7, <2>10, <3>5 DEF None
    <3>7. New(q) = {}
      BY <1>10, <2>10, <3>6 DEF New
    <3>8. Range(C(None)) = {}
      <4>1. None \in 0 .. Len(file) /\ Ends(None, stops)
        BY <1>1 DEF None, Ends
      <4> QED BY <1>7, <4>1
    <3> QED BY <2>2, <2>9, <2>12, <3>5, <3>7, <3>8
  <2> QED BY <2>13, <2>14
<1>12. \A h : EntriesAfter(h, end) = C(h)
  BY <1>2, <1>3 DEF EntriesAfter, C
<1> QED BY <1>7, <1>11, <1>12

\* The walk along the parents ends where the branch meets what is indexed.
LEMMA TruncationIs ==
  ASSUME FileInv, NEW end, end \in Nat
  PROVE  \A h \in 0 .. Len(file) : \A r : r = TruncationPoint(h, end) /\ r # None =>
           /\ r \in On(h) /\ r \notin Hooks /\ r \in Indexed(end)
           /\ \/ r = h
              \/ \E n \in On(h) : file[n].parent = r /\ n \notin Indexed(end)
           /\ h \notin Hooks
<1> DEFINE N == Len(file)
           ends == {None} \cup Hooks \cup Indexed(end)
           goes == [n \in DOMAIN file |-> file[n].parent]
           base == [n \in 0 .. N |-> IF n = None \/ n \in Hooks THEN None ELSE n]
           makes == [p \in (0 .. N) \X (0 .. N) |-> p[2]]
           Walks(f) == f = [i \in 0 .. N |->
                             IF i = None \/ i \in Hooks THEN None
                             ELSE IF i \in Indexed(end) THEN i ELSE f[file[i].parent]]
<1>1. N \in Nat /\ DOMAIN file = 1 .. N /\ Hooks \subseteq DOMAIN file /\ Indexed(end) \subseteq DOMAIN file
  BY FileLength DEF Hooks, Indexed
<1>2. \A n \in DOMAIN file : file[n].parent \in 0 .. n - 1 /\ file[n].parent \in 0 .. N
  <2> SUFFICES ASSUME NEW n \in DOMAIN file PROVE file[n].parent \in 0 .. n - 1 /\ file[n].parent \in 0 .. N
    OBVIOUS
  <2>1. WellLinked(n) /\ file[n] \in FileRecords
    BY DEF FileInv
  <2>2. file[n].parent \in Nat /\ file[n].parent < n
    BY <2>1 DEF WellLinked, FileRecords
  <2> QED BY <1>1, <2>2
<1>3. Scheme(N, ends, goes, base, makes, 0 .. N)
  <2>1. \A n \in 0 .. N : n \notin ends => goes[n] \in 0 .. n - 1
    BY <1>1, <1>2 DEF None
  <2>2. \A n \in 0 .. N : base[n] \in 0 .. N
    BY <1>1 DEF None
  <2>3. \A n \in 0 .. N : \A v \in 0 .. N : makes[<<n, v>>] \in 0 .. N
    OBVIOUS
  <2> HIDE DEF makes, base, goes, N, ends
  <2> QED BY <1>1, <2>1, <2>2, <2>3 DEF Scheme
<1>4. PICK f \in [0 .. N -> 0 .. N] : Follows(f, N, ends, goes, base, makes)
  <2> HIDE DEF makes, base, goes, N, ends
  <2> QED BY <1>3, RecursionWorks
<1>5. \A n \in 0 .. N : f[n] = IF n = None \/ n \in Hooks THEN None
                               ELSE IF n \in Indexed(end) THEN n ELSE f[file[n].parent]
  <2> SUFFICES ASSUME NEW n \in 0 .. N
               PROVE  f[n] = IF n = None \/ n \in Hooks THEN None
                             ELSE IF n \in Indexed(end) THEN n ELSE f[file[n].parent]
    OBVIOUS
  <2>1. f[n] = IF n \in ends THEN base[n] ELSE makes[<<n, f[goes[n]]>>]
    BY <1>4 DEF Follows
  <2>2. n \notin ends => n \in DOMAIN file /\ goes[n] = file[n].parent
    BY <1>1 DEF None
  <2>3. n \notin ends => f[file[n].parent] \in 0 .. N
    BY <1>2, <1>4, <2>2
  <2>4. \A v \in 0 .. N : makes[<<n, v>>] = v
    OBVIOUS
  <2>5. base[n] = IF n = None \/ n \in Hooks THEN None ELSE n
    OBVIOUS
  <2>6. n \in ends <=> n = None \/ n \in Hooks \/ n \in Indexed(end)
    OBVIOUS
  <2> HIDE DEF makes, base, goes, N, ends
  <2> QED BY <2>1, <2>2, <2>3, <2>4, <2>5, <2>6
<1>6. Walks(f)
  <2>1. f = [n \in 0 .. N |-> f[n]]
    BY <1>4
  <2> HIDE DEF N
  <2> QED BY <1>5, <2>1
<1> DEFINE walk == CHOOSE g : Walks(g)
<1>7. \A h : TruncationPoint(h, end) = walk[h]
  BY DEF TruncationPoint
<1>8. Walks(walk)
  <2> HIDE DEF Walks
  <2> QED BY <1>6
<1> HIDE DEF walk
<1>9. \A h \in 0 .. N : walk[h] = IF h = None \/ h \in Hooks THEN None
                                  ELSE IF h \in Indexed(end) THEN h ELSE walk[file[h].parent]
  <2> HIDE DEF N
  <2> QED BY <1>8
<1> DEFINE Met(h, r) == /\ r \in On(h) /\ r \notin Hooks /\ r \in Indexed(end)
                        /\ \/ r = h
                           \/ \E n \in On(h) : file[n].parent = r /\ n \notin Indexed(end)
           Wrong == {h \in 0 .. N : walk[h] # None /\ ~Met(h, walk[h])}
<1>10. Wrong = {}
  <2> SUFFICES ASSUME Wrong # {} PROVE FALSE
    OBVIOUS
  <2>1. PICK h \in Wrong : \A y \in Wrong : h <= y
    <3>1. Wrong \in SUBSET Nat
      BY <1>1
    <3> HIDE DEF Wrong
    <3> QED BY <3>1, LeastNat
  <2>2. PICK r : r = walk[h]
    OBVIOUS
  <2>3. h \in 0 .. N /\ r # None /\ ~Met(h, r)
    BY <2>1, <2>2
  <2>4. h # None /\ h \notin Hooks /\ h \in DOMAIN file /\ h \in Nat
    BY <1>1, <1>9, <2>2, <2>3 DEF None
  <2>5. On(h) = On(file[h].after) \cup {h}
    BY <2>4, OnIs
  <2>6. h \notin Indexed(end)
    <3> SUFFICES ASSUME h \in Indexed(end) PROVE FALSE
      OBVIOUS
    <3>1. r = h
      BY <1>9, <2>2, <2>3, <2>4
    <3> QED BY <2>3, <2>4, <2>5, <3>1
  <2>7. PICK p : p = file[h].parent
    OBVIOUS
  <2>8. r = walk[p]
    BY <1>9, <2>2, <2>3, <2>4, <2>6, <2>7
  <2>9. p \in 0 .. N /\ ~(h <= p)
    BY <1>2, <2>4, <2>7
  <2>10. Met(p, r)
    <3> HIDE DEF Met
    <3> QED BY <2>1, <2>3, <2>8, <2>9
  <2>11. p # None
    <3>1. On(None) = {}
      BY OnIs
    <3> QED BY <2>10, <3>1
  <2>12. file[h].after = p
    <3>1. WellLinked(h)
      BY <2>4 DEF FileInv
    <3> QED BY <2>7, <2>11, <3>1 DEF WellLinked
  <2>13. Met(h, r)
    BY <2>5, <2>6, <2>7, <2>10, <2>12
  <2> QED BY <2>3, <2>13
<1>11. \A h \in 0 .. N : walk[h] # None => h \notin Hooks
  BY <1>9
<1> QED BY <1>7, <1>10, <1>11

\* Records with one time stamp follow each other.
LEMMA TieRun ==
  ASSUME FileInv, NEW l \in DOMAIN file
  PROVE  \A k \in DOMAIN file : l <= k /\ Time(k) = Time(l) => l \in On(k)
<1> DEFINE Wrong == {k \in DOMAIN file : l <= k /\ Time(k) = Time(l) /\ l \notin On(k)}
<1>1. Len(file) \in Nat /\ DOMAIN file = 1 .. Len(file) /\ l \in Nat /\ 1 <= l
  BY FileLength
<1>2. Wrong = {}
  <2> SUFFICES ASSUME Wrong # {} PROVE FALSE
    OBVIOUS
  <2>1. PICK k \in Wrong : \A y \in Wrong : k <= y
    <3>1. Wrong \in SUBSET Nat
      BY <1>1
    <3> HIDE DEF Wrong
    <3> QED BY <3>1, LeastNat
  <2>2. k \in DOMAIN file /\ l <= k /\ Time(k) = Time(l) /\ l \notin On(k) /\ k \in Nat
    BY <1>1, <2>1
  <2>3. On(k) = On(file[k].after) \cup {k} /\ WellLinked(k) /\ WellTimed(k)
    BY <2>2, OnIs DEF FileInv
  <2>4. l # k
    BY <2>2, <2>3
  <2>5. l \in 1 .. k - 1 /\ k - 1 \in DOMAIN file /\ k - 1 # None /\ l <= k - 1 /\ ~(k <= k - 1)
        /\ k - 1 \in 1 .. k
    BY <1>1, <2>2, <2>4 DEF None
  <2>6. file[k].parent = k - 1
    BY <2>2, <2>3, <2>5 DEF WellTimed
  <2>7. file[k].after = k - 1
    BY <2>3, <2>5, <2>6 DEF WellLinked
  <2>8. Time(k - 1) = Time(l)
    <3>1. Time(k - 1) <= Time(k)
      BY <2>3, <2>5 DEF WellTimed
    <3>2. WellTimed(k - 1) /\ l \in 1 .. k - 1
      BY <2>5 DEF FileInv
    <3>3. Time(l) <= Time(k - 1)
      BY <3>2 DEF WellTimed
    <3>4. Time(l) \in Nat /\ Time(k - 1) \in Nat /\ Time(k) \in Nat
      BY <2>2, <2>5, LastTimeIs
    <3> QED BY <2>2, <3>1, <3>3, <3>4
  <2>9. l \in On(k - 1)
    <3>1. k - 1 \notin Wrong
      BY <2>1, <2>5
    <3> QED BY <2>5, <2>8, <3>1
  <2> QED BY <2>2, <2>3, <2>7, <2>9
<1> QED BY <1>2

\* Times do not fall.
LEMMA TimesRise ==
  ASSUME FileInv, NEW i \in DOMAIN file, NEW j \in DOMAIN file
  PROVE  /\ Time(i) \in Nat /\ 1 <= Time(i) /\ Time(i) <= MaxRecords /\ MaxRecords \in Nat
         /\ i <= j => Time(i) <= Time(j)
         /\ Time(i) < Time(j) => i < j
<1>1. Len(file) \in Nat /\ DOMAIN file = 1 .. Len(file) /\ WellTimed(i) /\ WellTimed(j)
      /\ MaxRecords \in Nat /\ Len(file) <= MaxRecords
  BY FileLength, TranscriptConstants DEF FileInv, TranscriptConstants
<1>2. Time(i) \in Nat /\ Time(j) \in Nat
  BY LastTimeIs
<1>3. 1 <= Time(i) /\ Time(i) <= i
  BY <1>1 DEF WellTimed
<1>4. Time(i) <= MaxRecords
  BY <1>1, <1>2, <1>3
<1>5. i <= j => Time(i) <= Time(j)
  <2>1. i <= j => i \in 1 .. j
    BY <1>1
  <2> QED BY <1>1, <2>1 DEF WellTimed
<1>6. j <= i => Time(j) <= Time(i)
  <2>1. j <= i => j \in 1 .. i
    BY <1>1
  <2> QED BY <1>1, <2>1 DEF WellTimed
<1>7. i < j \/ j <= i
  BY <1>1
<1> QED BY <1>1, <1>2, <1>3, <1>4, <1>5, <1>6, <1>7

LEMMA TimeEndIs ==
  ASSUME FileInv, SyncTypeOK
  PROVE  /\ TimeEnd \in Nat /\ TimeEnd <= MaxRecords
         /\ TimeEnd = 0 <=> doc = <<>>
         /\ Rising(doc) /\ doc # <<>> => TimeEnd = Time(Latest)
<1>1. Range(doc) \subseteq DOMAIN file /\ DOMAIN file = 1 .. Len(file) /\ Len(file) \in Nat
      /\ doc \in Seq(DOMAIN file) /\ MaxRecords \in Nat
  BY Types, FileLength, TranscriptConstants DEF TranscriptConstants
<1>2. PICK T : T = {Time(i) : i \in Range(doc)}
  OBVIOUS
<1>3. \A x \in T : x \in Nat /\ 1 <= x /\ x <= MaxRecords
  BY <1>1, <1>2, TimesRise
<1>4. CASE doc = <<>>
  BY <1>1, <1>4 DEF TimeEnd
<1>5. CASE doc # <<>>
  <2>1. Range(doc) # {}
    <3>1. doc[1] \in Range(doc)
      <4>1. Len(doc) # 0 /\ DOMAIN doc = 1 .. Len(doc) /\ Len(doc) \in Nat
        BY <1>1, <1>5, EmptySeq
      <4> QED BY <4>1 DEF Range
    <3> QED BY <3>1
  <2>2. T \in SUBSET (0 .. MaxRecords) /\ T # {}
    BY <1>1, <1>2, <1>3, <2>1
  <2>3. TimeEnd = Max(T)
    BY <1>2, <1>5 DEF TimeEnd
  <2>4. Max(T) \in T /\ \A x \in T : x <= Max(T)
    BY <1>1, <2>2, MaxIs
  <2>5. TimeEnd \in T /\ TimeEnd \in Nat /\ TimeEnd # 0 /\ TimeEnd <= MaxRecords
    BY <1>3, <2>3, <2>4
  <2>6. ASSUME Rising(doc) PROVE TimeEnd = Time(Latest)
    <3>1. Latest \in Range(doc) /\ Latest \in DOMAIN file /\ \A d \in Range(doc) : d <= Latest
      BY <1>5, <2>6, LatestIs
    <3>2. Time(Latest) \in T
      BY <1>2, <3>1
    <3>3. PICK d \in Range(doc) : TimeEnd = Time(d)
      BY <1>2, <2>5
    <3>4. Time(d) <= Time(Latest)
      BY <1>1, <3>1, <3>3, TimesRise
    <3>5. Time(Latest) <= TimeEnd
      BY <2>3, <2>4, <3>2
    <3>6. Time(Latest) \in Nat
      BY <1>3, <3>2
    <3> QED BY <2>5, <3>3, <3>4, <3>5, <3>6
  <2> QED BY <1>5, <2>5, <2>6
<1> QED BY <1>4, <1>5

\* What a sync that looks at the document finds: it is alone, so no step that is
\* not in the document has the time stamp of its latest.
FoundDocument(head) ==
  /\ FileInv /\ SyncTypeOK /\ ForksApart /\ NoReturn /\ DocIsABranch
  /\ doc # <<>>
  /\ \A j \in AllSteps : j > Latest => Time(j) # Time(Latest)
  /\ head \in DOMAIN file
  /\ \A d \in Range(doc) : d <= head

\* Cut to the record where the branches meet, the document is the branch up to
\* there.
LEMMA CutsWell ==
  ASSUME NEW head, FoundDocument(head),
         NEW r, r = TruncationPoint(head, TimeEnd), r # None
  PROVE  /\ r \in On(head) /\ r \notin Hooks /\ r \in DOMAIN file /\ Time(r) <= TimeEnd
         /\ StepsOn(r) = UpTo(StepsOn(head), r)
         /\ Time(r) < TimeEnd => Range(doc) \cap Indexed(Time(r)) = StepsOn(r)
         /\ Time(r) = TimeEnd => Range(doc) = StepsOn(r)
<1>1. /\ FileInv /\ SyncTypeOK /\ ForksApart /\ NoReturn /\ DocIsABranch /\ doc # <<>>
      /\ Rising(doc) /\ Range(doc) = StepsOn(Latest)
      /\ head \in DOMAIN file /\ \A d \in Range(doc) : d <= head
  BY DEF FoundDocument, DocIsABranch
<1>2. Len(file) \in Nat /\ DOMAIN file = 1 .. Len(file)
  BY <1>1, FileLength
<1>3. PICK l : l = Latest
  OBVIOUS
<1>4. /\ l \in DOMAIN file /\ l \in Range(doc) /\ \A d \in Range(doc) : d <= l
      /\ Range(doc) = StepsOn(l) /\ TimeEnd = Time(l) /\ TimeEnd \in Nat
      /\ \A j \in AllSteps : j > l => Time(j) # Time(l)
  BY <1>1, <1>3, LatestIs, TimeEndIs DEF FoundDocument
<1>5. l \in AllSteps /\ IsStep(l) /\ l <= head
  BY <1>1, <1>4 DEF StepsOn, AllSteps
<1>6. /\ r \in On(head) /\ r \notin Hooks /\ r \in Indexed(TimeEnd)
      /\ \/ r = head
         \/ \E n \in On(head) : file[n].parent = r /\ n \notin Indexed(TimeEnd)
  <2>1. head \in 0 .. Len(file)
    BY <1>1, <1>2
  <2> QED BY <1>1, <1>4, <2>1, TruncationIs
<1>7. r \in DOMAIN file /\ Time(r) <= Time(l) /\ On(head) \subseteq 1 .. head
  BY <1>1, <1>2, <1>4, <1>6, OnIs DEF Indexed
<1>8. StepsOn(r) = UpTo(StepsOn(head), r)
  <2>1. head \in 0 .. Len(file)
    BY <1>1, <1>2
  <2>2. On(r) = UpTo(On(head), r)
    BY <1>1, <1>6, <2>1, BranchCut
  <2> QED BY <2>2 DEF StepsOn, UpTo
<1>9. /\ l \in Nat /\ r \in Nat /\ head \in Nat
      /\ Time(l) \in Nat /\ Time(r) \in Nat
      /\ Time(r) < Time(l) => r < l
  BY <1>1, <1>2, <1>4, <1>7, TimesRise
\* beyond the meeting point the branch is later than the document
<1>10. ASSUME r < l
       PROVE  /\ r # head
              /\ \A d \in DOMAIN file : r < d /\ d <= l => Time(r) < Time(d)
  <2>1. r # head
    BY <1>5, <1>9, <1>10
  <2>2. PICK n \in On(head) : file[n].parent = r /\ n \notin Indexed(TimeEnd)
    BY <1>6, <2>1
  <2>3. n \in DOMAIN file /\ n \in Nat /\ Time(n) \in Nat /\ ~(Time(n) <= Time(l))
    BY <1>1, <1>2, <1>4, <1>7, <2>2, TimesRise DEF Indexed
  <2>4. l < n
    <3>1. Time(l) < Time(n)
      BY <1>9, <2>3
    <3> QED BY <1>1, <1>4, <2>3, <3>1, TimesRise
  <2>5. r < n - 1 /\ r + 1 \in DOMAIN file
    BY <1>2, <1>4, <1>9, <1>10, <2>3, <2>4
  <2>6. Time(r) < Time(r + 1)
    BY <1>1, <2>2, <2>3, <2>5 DEF ForksApart
  <2>7. ASSUME NEW d \in DOMAIN file, r < d PROVE Time(r) < Time(d)
    <3>1. r + 1 <= d
      BY <1>2, <1>9, <2>7
    <3>2. Time(r + 1) <= Time(d) /\ Time(r + 1) \in Nat /\ Time(d) \in Nat
      BY <1>1, <2>5, <3>1, TimesRise
    <3> QED BY <1>9, <2>6, <3>2
  <2> QED BY <2>1, <2>7
<1>11. ASSUME Time(r) < TimeEnd PROVE Range(doc) \cap Indexed(Time(r)) = StepsOn(r)
  <2>1. r < l
    BY <1>4, <1>9, <1>11
  <2>2. UpTo(StepsOn(l), r) = StepsOn(r)
    <3>1. CASE l = head
      BY <1>8, <3>1
    <3>2. CASE l # head
      <4>1. l \in r + 1 .. head - 1
        BY <1>5, <1>9, <2>1, <3>2
      <4>2. SharesPast(head)
        BY <1>1 DEF NoReturn
      <4> QED BY <1>5, <1>6, <4>1, <4>2 DEF SharesPast
    <3> QED BY <3>1, <3>2
  <2>3. ASSUME NEW d \in Range(doc) PROVE d \in Indexed(Time(r)) <=> d <= r
    <3>1. d \in DOMAIN file /\ d <= l /\ d \in Nat
      BY <1>1, <1>2, <1>4, Types
    <3>2. d <= r => d \in Indexed(Time(r))
      BY <1>1, <1>7, <3>1, TimesRise DEF Indexed
    <3>3. ~(d <= r) => d \notin Indexed(Time(r))
      <4> SUFFICES ASSUME r < d, Time(d) <= Time(r) PROVE FALSE
        BY <1>9, <3>1 DEF Indexed
      <4>1. Time(r) < Time(d)
        BY <1>10, <2>1, <3>1
      <4>2. Time(d) \in Nat
        BY <1>1, <3>1, TimesRise
      <4> QED BY <1>9, <4>1, <4>2
    <3> QED BY <3>2, <3>3
  <2>4. Range(doc) \cap Indexed(Time(r)) = UpTo(Range(doc), r)
    BY <2>3 DEF UpTo
  <2> QED BY <1>4, <2>2, <2>4
<1>12. ASSUME Time(r) = TimeEnd PROVE Range(doc) = StepsOn(r)
  <2>1. ~(r < l)
    <3> SUFFICES ASSUME r < l PROVE FALSE
      OBVIOUS
    <3>1. Time(r) < Time(l)
      BY <1>4, <1>9, <1>10
    <3> QED BY <1>4, <1>9, <1>12, <3>1
  <2>2. l <= r /\ Time(r) = Time(l)
    BY <1>4, <1>9, <1>12, <2>1
  <2>3. l \in On(r)
    BY <1>1, <1>4, <1>7, <2>2, TieRun
  <2>4. On(l) = UpTo(On(r), l) /\ On(r) \subseteq 1 .. r
    <3>1. r \in 0 .. Len(file)
      BY <1>2, <1>7
    <3> QED BY <1>1, <2>3, <3>1, BranchCut, OnIs
  <2>5. ASSUME NEW i \in StepsOn(r) PROVE i <= l
    <3> SUFFICES ASSUME ~(i <= l) PROVE FALSE
      OBVIOUS
    <3>1. i \in AllSteps /\ i \in DOMAIN file /\ i \in Nat /\ i <= r /\ l < i
      BY <1>2, <1>7, <1>9, <2>4 DEF StepsOn, AllSteps
    <3>2. Time(i) <= Time(r) /\ Time(l) <= Time(i) /\ Time(i) \in Nat
      BY <1>1, <1>4, <1>7, <1>9, <3>1, TimesRise
    <3>3. Time(i) = Time(l)
      BY <1>9, <2>2, <3>2
    <3> QED BY <1>4, <1>9, <3>1, <3>3
  <2>6. StepsOn(l) = StepsOn(r)
    BY <2>4, <2>5 DEF StepsOn, UpTo
  <2> QED BY <1>4, <2>6
<1> QED BY <1>4, <1>6, <1>7, <1>8, <1>11, <1>12

\* The fast path, on a branch that goes on from the document.
LEMMA GoesOn ==
  ASSUME NEW head, FoundDocument(head), Range(doc) \subseteq StepsOn(head)
  PROVE  /\ Range(doc) \cup (StepsOn(head) \ Indexed(TimeEnd)) = StepsOn(head)
         /\ \A d \in Range(doc) : \A t \in StepsOn(head) \ Indexed(TimeEnd) : d < t
<1>1. /\ FileInv /\ SyncTypeOK /\ doc # <<>> /\ Rising(doc) /\ Range(doc) = StepsOn(Latest)
      /\ head \in DOMAIN file
  BY DEF FoundDocument, DocIsABranch
<1>2. Len(file) \in Nat /\ DOMAIN file = 1 .. Len(file)
  BY <1>1, FileLength
<1>3. PICK l : l = Latest
  OBVIOUS
<1>4. /\ l \in DOMAIN file /\ l \in Range(doc) /\ \A d \in Range(doc) : d <= l
      /\ Range(doc) = StepsOn(l) /\ TimeEnd = Time(l)
      /\ \A j \in AllSteps : j > l => Time(j) # Time(l)
  BY <1>1, <1>3, LatestIs, TimeEndIs DEF FoundDocument
<1>5. On(l) = UpTo(On(head), l)
  <2>1. head \in 0 .. Len(file) /\ l \in On(head)
    BY <1>1, <1>2, <1>4 DEF StepsOn
  <2> QED BY <1>1, <2>1, BranchCut
<1>6. \A i \in StepsOn(head) : i \in DOMAIN file /\ i \in AllSteps /\ i \in Nat
  BY <1>2 DEF StepsOn, AllSteps
<1>7. ASSUME NEW i \in StepsOn(head), i <= l PROVE i \in Range(doc) /\ i \in Indexed(TimeEnd)
  <2>1. i \in StepsOn(l)
    BY <1>5, <1>7 DEF StepsOn, UpTo
  <2>2. Time(i) <= Time(l)
    BY <1>1, <1>4, <1>6, <1>7, TimesRise
  <2> QED BY <1>4, <1>6, <2>1, <2>2 DEF Indexed
<1>8. ASSUME NEW i \in StepsOn(head), ~(i <= l) PROVE i \notin Indexed(TimeEnd)
  <2>1. l < i /\ i \in AllSteps
    BY <1>2, <1>4, <1>6, <1>8
  <2>2. Time(l) <= Time(i) /\ Time(i) # Time(l) /\ Time(i) \in Nat /\ Time(l) \in Nat
    BY <1>1, <1>2, <1>4, <1>6, <2>1, TimesRise
  <2> QED BY <1>4, <2>2 DEF Indexed
<1>9. \A d \in Range(doc) : d \in Nat /\ l \in Nat
  BY <1>1, <1>2, <1>4, Types
<1> QED BY <1>4, <1>6, <1>7, <1>8, <1>9

-----------------------------------------------------------------------------
(* The steps of a sync *)

Only(p) == \A q \in Syncs \ {p} : sync[q].pc = "idle"
InHandOf(p) == IF sync[p].pc = "appending" THEN Range(sync[p].todo) ELSE {}

\* What one sync at a time has in hand.
LEMMA InHandIs == \A p \in Syncs : Only(p) => InHand = InHandOf(p)
BY DEF Only, InHand, InHandOf

\* What rests on the transcript alone rests with it.
LEMMA SameFile ==
  ASSUME file' = file
  PROVE  /\ AllSteps' = AllSteps
         /\ \A i : Kind(i)' = Kind(i) /\ Time(i)' = Time(i)
         /\ \A end : Indexed(end)' = Indexed(end)
         /\ \A h : On(h)' = On(h) /\ StepsOn(h)' = StepsOn(h)
         /\ FileInv => FileInv'
         /\ ForksApart => ForksApart'
         /\ NoReturn => NoReturn'
<1>1. \A i : Kind(i)' = Kind(i) /\ Time(i)' = Time(i) /\ IsStep(i)' = IsStep(i)
  BY DEF Kind, Time, IsStep
<1>2. AllSteps' = AllSteps
  BY <1>1 DEF AllSteps
<1>3. \A end : Indexed(end)' = Indexed(end)
  BY <1>1 DEF Indexed
<1>4. \A h : On(h)' = On(h)
  BY DEF On, Branch, ChainFrom, None
<1>5. \A h : StepsOn(h)' = StepsOn(h)
  BY <1>2, <1>4 DEF StepsOn
<1>6. \A i : LastMessage(i)' = LastMessage(i)
  BY DEF LastMessage, LastOf, None, Kind, Max
<1>7. \A i : (WellLinked(i) => WellLinked(i)') /\ (WellTimed(i) => WellTimed(i)')
  BY <1>1, <1>6 DEF WellLinked, WellTimed, None
<1>8. FileInv => FileInv'
  BY <1>7 DEF FileInv
<1>9. ForksApart => ForksApart'
  BY DEF ForksApart, None, Time
<1>10. NoReturn => NoReturn'
  BY <1>1, <1>4, <1>5 DEF NoReturn, SharesPast, UpTo
<1> QED BY <1>1, <1>2, <1>3, <1>4, <1>5, <1>8, <1>9, <1>10

\* A step of one sync while the others rest.
LEMMA OneSync ==
  ASSUME FileInv, SyncTypeOK, SyncInv, NEW p \in Syncs, Only(p), file' = file,
         \A q \in Syncs \ {p} : sync'[q] = sync[q],
         sync'[p].pc = "idle" => sync'[p] = Idle,
         sync'[p].pc # "adrift",
         sync'[p].pc \notin {"idle", "starting"} => lock' = p,
         DocIsABranch', TiesInHand', Stage(p)'
  PROVE  SyncInv'
<1>1. ForksApart' /\ NoReturn'
  BY SameFile DEF SyncInv
<1>2. \A q \in Syncs \ {p} : sync'[q].pc = "idle" /\ sync'[q] = Idle
  BY DEF Only, SyncInv, Alone
<1>3. Alone'
  BY <1>2 DEF Alone, Idle, None, NoCut
<1>4. \A q \in Syncs : Stage(q)'
  BY <1>2 DEF Stage
<1> QED BY <1>1, <1>3, <1>4 DEF SyncInv

\* While a sync that has begun is at work the others rest.
LEMMA OthersRest ==
  ASSUME SyncInv, NEW p \in Syncs, sync[p].pc # "idle"
  PROVE  /\ Only(p) /\ sync[p].pc # "adrift"
         /\ sync[p].pc # "starting" => lock = p
         /\ InHand = InHandOf(p)
<1>1. Only(p) /\ sync[p].pc # "adrift" /\ (sync[p].pc # "starting" => lock = p)
  BY DEF SyncInv, Alone, Only
<1> QED BY <1>1, InHandIs

\* The document and its ties stay when neither it nor what is in hand changes.
LEMMA DocStays ==
  ASSUME SyncInv, file' = file, doc' = doc, InHand' = InHand
  PROVE  DocIsABranch' /\ TiesInHand'
<1>1. Latest' = Latest
  BY DEF Latest, None
<1>2. PICK l : l = Latest
  OBVIOUS
<1>3. StepsOn(l)' = StepsOn(l) /\ AllSteps' = AllSteps /\ \A i : Time(i)' = Time(i)
  BY SameFile
<1>4. StepsOn(Latest)' = StepsOn(l)'
  BY <1>1, <1>2
<1>5. DocIsABranch'
  BY <1>2, <1>3, <1>4 DEF SyncInv, DocIsABranch, Rising
<1>6. Time(Latest)' = Time(Latest)
  BY <1>1, <1>2, <1>3
<1>7. TiesInHand'
  BY <1>1, <1>3, <1>6 DEF SyncInv, TiesInHand
<1> QED BY <1>5, <1>7

LEMMA HookFiresKeeps ==
  ASSUME FileInv, SyncTypeOK, file' = file, NEW p \in Syncs, NEW full \in BOOLEAN, HookFires(p, full)
  PROVE  SyncTypeOK' /\ (spoiled' = {} => spoiled = {} /\ (SyncInv => SyncInv'))
<1>1. sync \in [Syncs -> SyncRecords(Len(file))] /\ sync[p].pc = "idle"
  BY Types DEF HookFires
<1>2. /\ sync' \in [Syncs -> SyncRecords(Len(file))]
      /\ sync'[p].pc = "starting"
      /\ \A q \in Syncs \ {p} : sync'[q] = sync[q]
  BY <1>1 DEF HookFires, SyncRecords
<1>3. SyncTypeOK'
  BY <1>2, FileLength DEF HookFires, SyncTypeOK, SyncRecords, NoCut, Unlocked, Dead
<1>4. ASSUME spoiled' = {}, SyncInv PROVE SyncInv'
  <2>1. \A q \in Syncs : sync[q].pc # "starting"
    BY <1>4 DEF HookFires
  <2>2. \A q \in Syncs : sync[q].pc = "idle"
    <3> SUFFICES ASSUME NEW q \in Syncs, sync[q].pc # "idle" PROVE FALSE
      OBVIOUS
    <3>1. lock = q /\ sync[q].pc # "adrift"
      BY <1>4, <2>1 DEF SyncInv, Alone
    <3> QED BY <3>1 DEF HookFires, Locked
  <2>3. Only(p) /\ Only(p)'
    BY <1>2, <2>2 DEF Only
  <2>4. InHand' = InHand
    <3>1. InHand = {}
      BY <2>2 DEF InHand
    <3>2. InHand' = {}
      BY <1>2, <2>2 DEF InHand
    <3> QED BY <3>1, <3>2
  <2>5. DocIsABranch' /\ TiesInHand'
    BY <1>4, <2>4, DocStays DEF HookFires
  <2>6. Stage(p)'
    BY <1>2 DEF Stage
  <2> QED BY <1>2, <1>4, <2>3, <2>5, <2>6, OneSync
<1> QED BY <1>3, <1>4 DEF HookFires

\* A sync that comes to rest, with nothing in hand that ties with the document.
LEMMA RestKeeps ==
  ASSUME FileInv, SyncTypeOK, SyncInv, file' = file, doc' = doc, NEW p \in Syncs,
         sync[p].pc # "idle", sync' = [sync EXCEPT ![p] = Idle],
         doc # <<>> => \A j \in InHand : j > Latest => Time(j) # Time(Latest)
  PROVE  SyncInv'
<1>1. Only(p) /\ sync \in [Syncs -> SyncRecords(Len(file))]
  BY OthersRest, Types
<1>2. sync'[p] = Idle /\ Idle.pc = "idle" /\ \A q \in Syncs \ {p} : sync'[q] = sync[q]
  BY <1>1 DEF Idle
<1>3. Latest' = Latest
  BY DEF Latest, None
<1>4. PICK l : l = Latest
  OBVIOUS
<1>5. AllSteps' = AllSteps /\ \A i : Time(i)' = Time(i) /\ StepsOn(i)' = StepsOn(i)
  BY SameFile
<1>6. Time(Latest)' = Time(Latest) /\ StepsOn(Latest)' = StepsOn(Latest)
  BY <1>3, <1>4, <1>5
<1>7. DocIsABranch'
  BY <1>6 DEF SyncInv, DocIsABranch, Rising
<1>8. TiesInHand'
  BY <1>3, <1>5, <1>6 DEF SyncInv, TiesInHand
<1>9. Stage(p)'
  BY <1>2 DEF Stage
<1> QED BY <1>1, <1>2, <1>7, <1>8, <1>9, OneSync

LEMMA IdleTyped ==
  ASSUME FileInv, SyncTypeOK, NEW p \in Syncs, file' = file
  PROVE  [sync EXCEPT ![p] = Idle] \in [Syncs -> SyncRecords(Len(file))]
<1>1. sync \in [Syncs -> SyncRecords(Len(file))] /\ Len(file) \in Nat /\ NoCut \in Nat
  BY Types, FileLength, TranscriptConstants DEF TranscriptConstants, NoCut
<1>2. Idle \in SyncRecords(Len(file))
  <2>1. None \in 0 .. Len(file) /\ NoCut \in 0 .. NoCut /\ <<>> \in Seq(1 .. Len(file))
    BY <1>1, EmptySeq DEF None
  <2> QED BY <2>1 DEF Idle, SyncRecords
<1> QED BY <1>1, <1>2

LEMMA TypesBack ==
  ASSUME FileInv, file' = file, doc' \in Seq(DOMAIN file),
         lock' \in Syncs \cup {Unlocked, Dead},
         sync' \in [Syncs -> SyncRecords(Len(file))],
         faults' \in 0 .. MaxFaults,
         spoiled' \subseteq {"tie", "orphan", "return", "race", "adrift"}
  PROVE  SyncTypeOK'
<1>1. DOMAIN file = 1 .. Len(file)
  BY FileLength
<1> QED BY <1>1 DEF SyncTypeOK, SyncRecords, NoCut, Unlocked, Dead

LEMMA WriteLockKeeps ==
  ASSUME FileInv, SyncTypeOK, file' = file, NEW p \in Syncs, WriteLock(p)
  PROVE  SyncTypeOK' /\ (SyncInv => SyncInv')
<1>1. sync \in [Syncs -> SyncRecords(Len(file))] /\ sync[p].pc = "starting"
  BY Types DEF WriteLock
<1>2. /\ sync' \in [Syncs -> SyncRecords(Len(file))]
      /\ sync'[p].pc = "locked"
      /\ \A q \in Syncs \ {p} : sync'[q] = sync[q]
  BY <1>1 DEF WriteLock, SyncRecords
<1>3. SyncTypeOK'
  BY <1>2, TypesBack DEF WriteLock, SyncTypeOK
<1>4. ASSUME SyncInv PROVE SyncInv'
  <2>1. Only(p) /\ InHand = InHandOf(p)
    BY <1>1, <1>4, OthersRest
  <2>2. Only(p)'
    BY <1>2, <2>1 DEF Only
  <2>3. InHand' = InHandOf(p)'
    BY <2>2 DEF Only, InHand, InHandOf
  <2>4. InHand' = InHand
    BY <1>1, <1>2, <2>1, <2>3 DEF InHandOf
  <2>5. DocIsABranch' /\ TiesInHand'
    BY <1>4, <2>4, DocStays DEF WriteLock
  <2>6. Stage(p)'
    BY <1>2 DEF Stage
  <2>7. lock' = p
    BY DEF WriteLock
  <2> QED BY <1>2, <1>4, <2>1, <2>5, <2>6, <2>7, OneSync
<1> QED BY <1>3, <1>4

LEMMA ReadHeadKeeps ==
  ASSUME FileInv, SyncTypeOK, file' = file, NEW p \in Syncs, ReadHead(p)
  PROVE  SyncTypeOK' /\ (SyncInv => SyncInv')
<1>1. sync \in [Syncs -> SyncRecords(Len(file))] /\ sync[p].pc = "locked"
      /\ Len(file) \in Nat /\ DOMAIN file = 1 .. Len(file)
  BY Types, FileLength DEF ReadHead
<1>2. PICK h : h = CurrentHead
  OBVIOUS
<1>3. h \in DOMAIN file /\ \A j \in AllSteps : j <= h
  <2> DEFINE S == {i \in DOMAIN file : Kind(i) # "summary"}
  <2>1. S \in SUBSET (1 .. Len(file)) /\ h = LastOf(S) /\ h # None
    BY <1>1, <1>2 DEF CurrentHead, ReadHead
  <2>2. h \in S /\ \A x \in S : x <= h
    <3> HIDE DEF S
    <3> QED BY <1>1, <2>1, LastOfIs
  <2> QED BY <2>2 DEF AllSteps, IsStep
<1>4. h \in 0 .. Len(file)
  BY <1>1, <1>3
<1>5. /\ sync' \in [Syncs -> SyncRecords(Len(file))]
      /\ sync'[p].pc = "looking" /\ sync'[p].head = h
      /\ \A q \in Syncs \ {p} : sync'[q] = sync[q]
  BY <1>1, <1>2, <1>4 DEF ReadHead, SyncRecords
<1>6. SyncTypeOK'
  BY <1>5, TypesBack DEF ReadHead, SyncTypeOK
<1>7. ASSUME SyncInv PROVE SyncInv'
  <2>1. Only(p) /\ InHand = InHandOf(p) /\ lock = p
    BY <1>1, <1>7, OthersRest
  <2>2. Only(p)'
    BY <1>5, <2>1 DEF Only
  <2>3. InHand' = InHandOf(p)'
    BY <2>2 DEF Only, InHand, InHandOf
  <2>4. InHand' = InHand
    BY <1>1, <1>5, <2>1, <2>3 DEF InHandOf
  <2>5. DocIsABranch' /\ TiesInHand'
    BY <1>7, <2>4, DocStays DEF ReadHead
  <2>6. \A d \in Range(doc) : d <= h
    BY <1>3, <1>7 DEF SyncInv, DocIsABranch, StepsOn
  <2>7. AllSteps' = AllSteps
    BY SameFile
  <2>8. \A j \in AllSteps : ~(j > h)
    <3>1. \A j \in AllSteps : j \in Nat /\ h \in Nat
      BY <1>1, <1>3 DEF AllSteps
    <3> QED BY <1>3, <3>1
  <2>9. HeadIsPast(p)'
    BY <1>3, <1>5, <2>7, <2>8 DEF HeadIsPast
  <2>10. Stage(p)'
    BY <1>5, <2>6, <2>9 DEF Stage, ReadHead
  <2>11. lock' = p
    BY <2>1 DEF ReadHead
  <2> QED BY <1>5, <1>7, <2>1, <2>5, <2>10, <2>11, OneSync
<1> QED BY <1>6, <1>7

LEMMA EmptyTranscriptKeeps ==
  ASSUME FileInv, SyncTypeOK, file' = file, NEW p \in Syncs, EmptyTranscript(p)
  PROVE  SyncTypeOK' /\ (SyncInv => SyncInv')
<1>1. sync[p].pc = "locked" /\ sync' = [sync EXCEPT ![p] = Idle] /\ doc' = doc
  BY DEF EmptyTranscript
<1>2. SyncTypeOK'
  BY <1>1, IdleTyped, TypesBack DEF EmptyTranscript, SyncTypeOK
<1>3. ASSUME SyncInv PROVE SyncInv'
  <2>1. InHand = {}
    <3>1. InHand = InHandOf(p)
      BY <1>1, <1>3, OthersRest
    <3> QED BY <1>1, <3>1 DEF InHandOf
  <2> QED BY <1>1, <1>3, <2>1, RestKeeps
<1> QED BY <1>2, <1>3

LEMMA FinishKeeps ==
  ASSUME FileInv, SyncTypeOK, file' = file, NEW p \in Syncs, Finish(p)
  PROVE  SyncTypeOK' /\ (SyncInv => SyncInv')
<1>1. sync[p].pc = "appending" /\ sync[p].todo = <<>> /\ sync' = [sync EXCEPT ![p] = Idle] /\ doc' = doc
  BY DEF Finish
<1>2. SyncTypeOK'
  BY <1>1, IdleTyped, TypesBack DEF Finish, SyncTypeOK
<1>3. ASSUME SyncInv PROVE SyncInv'
  <2>1. InHand = {}
    <3>1. InHand = InHandOf(p)
      BY <1>1, <1>3, OthersRest
    <3> QED BY <1>1, <3>1, EmptyRises DEF InHandOf
  <2> QED BY <1>1, <1>3, <2>1, RestKeeps
<1> QED BY <1>2, <1>3

\* A sync that fails or is killed: what it had in hand ties with nothing.
LEMMA StopKeeps ==
  ASSUME FileInv, SyncTypeOK, SyncInv, file' = file, doc' = doc, NEW p \in Syncs,
         sync[p].pc # "idle", sync' = [sync EXCEPT ![p] = Idle], Tie(p) = {}
  PROVE  SyncInv'
<1>1. InHand = InHandOf(p)
  BY OthersRest
<1>2. ASSUME doc # <<>>, NEW j \in InHand PROVE Time(j) # Time(Latest)
  <2>1. sync[p].pc = "appending" /\ j \in Range(sync[p].todo)
    BY <1>1, <1>2 DEF InHandOf
  <2>2. sync[p].todo # <<>>
    BY <2>1, EmptyRises
  <2>3. Stage(p)
    BY DEF SyncInv
  <2>4. Rising(sync[p].todo) /\ Range(sync[p].todo) \subseteq StepsOn(sync[p].head)
    BY <2>1, <2>2, <2>3 DEF Stage, Makes
  <2>5. PICK t : t = Head(sync[p].todo)
    OBVIOUS
  <2>6. t \in Range(sync[p].todo) /\ t \in Nat /\ (j = t \/ t < j)
    BY <2>1, <2>2, <2>4, <2>5, RisingTail
  <2>7. t \in DOMAIN file /\ j \in DOMAIN file /\ DOMAIN file = 1 .. Len(file) /\ Len(file) \in Nat
    BY <2>1, <2>4, <2>6, FileLength DEF StepsOn, AllSteps
  <2>8. ~(Time(t) <= TimeEnd)
    <3>1. ~LosesATie(p)
      BY DEF Tie
    <3> QED BY <2>1, <2>2, <2>5, <3>1 DEF LosesATie
  <2>9. TimeEnd = Time(Latest) /\ TimeEnd \in Nat
    BY <1>2, TimeEndIs DEF SyncInv, DocIsABranch
  <2>10. Time(t) <= Time(j) /\ Time(t) \in Nat /\ Time(j) \in Nat
    <3>1. t <= j
      BY <2>6, <2>7
    <3> QED BY <2>7, <3>1, TimesRise
  <2> QED BY <2>8, <2>9, <2>10
<1> QED BY <1>2, RestKeeps

LEMMA FailKeeps ==
  ASSUME FileInv, SyncTypeOK, file' = file, NEW p \in Syncs, Fail(p)
  PROVE  SyncTypeOK' /\ (spoiled' = {} => spoiled = {} /\ (SyncInv => SyncInv'))
<1>1. sync[p].pc # "idle" /\ sync' = [sync EXCEPT ![p] = Idle] /\ doc' = doc
      /\ spoiled' = spoiled \cup Tie(p)
  BY DEF Fail
<1>2. faults' \in 0 .. MaxFaults
  BY SyncConstants DEF Fail, SyncTypeOK, SyncConstants
<1>3. SyncTypeOK'
  BY <1>1, <1>2, IdleTyped, TypesBack DEF Fail, SyncTypeOK, Tie
<1>4. ASSUME spoiled' = {}, SyncInv PROVE SyncInv'
  BY <1>1, <1>4, StopKeeps
<1> QED BY <1>1, <1>3, <1>4

LEMMA KillKeeps ==
  ASSUME FileInv, SyncTypeOK, file' = file, NEW p \in Syncs, Kill(p)
  PROVE  SyncTypeOK' /\ (spoiled' = {} => spoiled = {} /\ (SyncInv => SyncInv'))
<1>1. sync[p].pc # "idle" /\ doc' = doc /\ faults' = faults + 1 /\ faults < MaxFaults
      /\ lock' = IF lock = p THEN Dead ELSE lock
  BY DEF Kill
<1>2. faults' \in 0 .. MaxFaults /\ lock' \in Syncs \cup {Unlocked, Dead}
  BY <1>1, SyncConstants DEF SyncTypeOK, SyncConstants
<1>3. CASE sync' = [sync EXCEPT ![p] = Idle] /\ spoiled' = spoiled \cup Tie(p)
  <2>1. SyncTypeOK'
    BY <1>1, <1>2, <1>3, IdleTyped, TypesBack DEF SyncTypeOK, Tie
  <2>2. ASSUME spoiled' = {}, SyncInv PROVE SyncInv'
    BY <1>1, <1>3, <2>2, StopKeeps
  <2> QED BY <1>3, <2>1, <2>2
<1>4. CASE sync' = [sync EXCEPT ![p].pc = "adrift"] /\ spoiled' = spoiled \cup {"adrift"}
  <2>1. sync \in [Syncs -> SyncRecords(Len(file))]
    BY Types
  <2>2. sync' \in [Syncs -> SyncRecords(Len(file))]
    BY <1>4, <2>1 DEF SyncRecords
  <2>3. SyncTypeOK'
    BY <1>1, <1>2, <1>4, <2>2, TypesBack DEF SyncTypeOK
  <2> QED BY <1>4, <2>3
<1> QED BY <1>3, <1>4 DEF Kill

\* A document that is made, so far, is a branch; ties are still to come.
LEMMA MadeSoFar ==
  ASSUME FileInv, ForksApart, NEW p \in Syncs, HeadIsPast(p), NEW head, head = sync[p].head,
         NEW held, Rising(held), NEW todo, Makes(Range(held), todo, head), held # <<>>,
         NEW x, x = Last(held)
  PROVE  /\ Range(held) = StepsOn(x)
         /\ \A j \in AllSteps : j > x /\ Time(j) = Time(x) => j \in Range(todo)
<1>1. /\ Len(file) \in Nat /\ DOMAIN file = 1 .. Len(file) /\ head \in DOMAIN file
      /\ head \in 0 .. Len(file) /\ head \in Nat
  BY FileLength DEF HeadIsPast
<1>2. x \in Range(held) /\ x \in Nat /\ \A y \in Range(held) : y <= x
  BY RisingLast
<1>3. PICK H : H = Range(held)
  OBVIOUS
<1>4. PICK R : R = Range(todo)
  OBVIOUS
<1>5. H \cup R = StepsOn(head) /\ (\A d \in H : \A t \in R : d < t)
  BY <1>3, <1>4 DEF Makes
<1>6. x \in StepsOn(head) /\ StepsOn(head) \subseteq On(head) /\ On(head) \subseteq 1 .. head
  BY <1>1, <1>2, <1>3, <1>5, OnIs DEF StepsOn
<1>7. On(x) = UpTo(On(head), x)
  BY <1>1, <1>6, BranchCut
<1>8. \A i \in StepsOn(head) : i <= x <=> i \in H
  <2> SUFFICES ASSUME NEW i \in StepsOn(head) PROVE i <= x <=> i \in H
    OBVIOUS
  <2>1. i \in Nat
    BY <1>1, <1>6
  <2>2. i \in H => i <= x
    BY <1>2, <1>3
  <2>3. i \in R => x < i
    BY <1>2, <1>3, <1>5
  <2> QED BY <1>2, <1>5, <2>1, <2>2, <2>3
<1>9. H = StepsOn(x)
  BY <1>5, <1>7, <1>8 DEF StepsOn, UpTo
<1>10. ASSUME NEW j \in AllSteps, j > x, Time(j) = Time(x) PROVE j \in R
  <2>1. j \in DOMAIN file /\ j \in Nat /\ x \in DOMAIN file
    BY <1>1, <1>6 DEF AllSteps, StepsOn
  <2>2. j <= head
    <3> SUFFICES ASSUME j > head PROVE FALSE
      BY <1>1, <2>1
    <3>1. Time(j) > Time(head)
      BY DEF HeadIsPast
    <3>2. Time(x) <= Time(head)
      BY <1>1, <1>6, <2>1, TimesRise
    <3>3. Time(x) \in Nat /\ Time(head) \in Nat
      BY <1>1, <2>1, TimesRise
    <3> QED BY <1>10, <3>1, <3>2, <3>3
  <2>3. j \in On(head)
    <3>1. x < j
      BY <1>2, <1>10, <2>1
    <3> QED BY <1>1, <1>6, <1>10, <2>2, <3>1, TiesAreOnTheBranch DEF StepsOn
  <2>4. j \in StepsOn(head) /\ ~(j <= x)
    BY <1>2, <1>10, <2>1, <2>3 DEF StepsOn
  <2> QED BY <1>5, <1>8, <2>4
<1> QED BY <1>3, <1>4, <1>9, <1>10

\* A sync that appends to a document as it is to be.
LEMMA AppendingWell ==
  ASSUME FileInv, SyncTypeOK, SyncInv, file' = file, NEW p \in Syncs, Only(p),
         \A q \in Syncs \ {p} : sync'[q] = sync[q], lock' = p,
         HeadIsPast(p), sync'[p].head = sync[p].head, sync'[p].pc = "appending",
         Rising(doc'), Makes(Range(doc'), sync'[p].todo, sync[p].head)
  PROVE  SyncInv'
<1>1. PICK head : head = sync[p].head
  OBVIOUS
<1>2. PICK todo : todo = sync'[p].todo
  OBVIOUS
<1>3. PICK held : held = doc'
  OBVIOUS
<1>4. /\ AllSteps' = AllSteps /\ \A i : Time(i)' = Time(i) /\ StepsOn(i)' = StepsOn(i) /\ Kind(i)' = Kind(i)
  BY SameFile
<1>5. ForksApart
  BY DEF SyncInv
<1>6. Only(p)'
  BY DEF Only
<1>7. InHand' = Range(todo)
  <2>1. InHand' = InHandOf(p)'
    BY <1>6 DEF Only, InHand, InHandOf
  <2> QED BY <1>2, <2>1 DEF InHandOf
<1>8. HeadIsPast(p)'
  BY <1>4 DEF HeadIsPast
<1>9. Stage(p)'
  <2>1. Makes(Range(held), todo, head)'
    BY <1>1, <1>2, <1>3, <1>4 DEF Makes, Rising
  <2>2. Makes(Range(doc), sync[p].todo, sync[p].head)'
    BY <1>1, <1>2, <1>3, <2>1 DEF Makes, Rising
  <2> QED BY <1>8, <2>2 DEF Stage
<1>10. CASE held = <<>>
  <2>1. Latest' = None /\ Range(held) = {} /\ StepsOn(None)' = {}
    <3>1. Latest' = None
      BY <1>3, <1>10 DEF Latest, None
    <3>2. StepsOn(None) = {}
      BY OnIs DEF StepsOn
    <3> QED BY <1>4, <1>10, <3>1, <3>2, EmptyRises
  <2>2. DocIsABranch'
    BY <1>3, <2>1 DEF DocIsABranch, Rising, None
  <2>3. TiesInHand'
    BY <1>3, <1>10 DEF TiesInHand
  <2> QED BY <1>9, <2>2, <2>3, OneSync
<1>11. CASE held # <<>>
  <2>1. PICK x : x = Last(held)
    OBVIOUS
  <2>2. /\ Range(held) = StepsOn(x)
        /\ \A j \in AllSteps : j > x /\ Time(j) = Time(x) => j \in Range(todo)
    BY <1>1, <1>2, <1>3, <1>5, <1>11, <2>1, MadeSoFar
  <2>3. Latest' = x
    BY <1>3, <1>11, <2>1 DEF Latest
  <2>4. StepsOn(Latest)' = StepsOn(x) /\ Time(Latest)' = Time(x)
    BY <1>4, <2>3
  <2>5. DocIsABranch'
    BY <1>3, <2>2, <2>4 DEF DocIsABranch, Rising
  <2>6. TiesInHand'
    BY <1>4, <1>7, <2>2, <2>3, <2>4 DEF TiesInHand
  <2> QED BY <1>9, <2>5, <2>6, OneSync
<1> QED BY <1>10, <1>11

LEMMA AmongTyped ==
  ASSUME NEW n0 \in Nat, NEW s \in Seq(1 .. n0), NEW S
  PROVE  Among(s, S) \in Seq(1 .. n0)
<1> DEFINE V == Seq(1 .. n0)
<1>1. s \in Seq(Nat) /\ Len(s) \in Nat /\ \A n \in 1 .. Len(s) : s[n] \in 1 .. n0
  <2>1. Seq(1 .. n0) \subseteq Seq(Nat)
    BY SeqMonotonic
  <2> QED BY <2>1
<1>2. PICK kept \in [0 .. Len(s) -> Seq(Nat)] :
        Among(s, S) = kept[Len(s)] /\ Picks(kept, s, S)
  BY <1>1, AmongIs
<1> DEFINE Untyped == {n \in 0 .. Len(s) : kept[n] \notin V}
<1>3. Untyped = {}
  <2> SUFFICES ASSUME Untyped # {} PROVE FALSE
    OBVIOUS
  <2>1. PICK k \in Untyped : \A y \in Untyped : k <= y
    <3>1. Untyped \in SUBSET Nat
      BY <1>1
    <3> HIDE DEF Untyped
    <3> QED BY <3>1, LeastNat
  <2>2. k # 0
    BY <1>2, <2>1, EmptySeq DEF Picks
  <2>3. k \in 1 .. Len(s) /\ k - 1 \in 0 .. Len(s) /\ kept[k - 1] \in V
    BY <1>1, <2>1, <2>2
  <2>4. s[k] \in 1 .. n0
    BY <1>1, <2>3
  <2>5. Append(kept[k - 1], s[k]) \in V
    BY <2>3, <2>4, AppendProperties
  <2>6. kept[k] \in V
    <3> HIDE DEF V
    <3> QED BY <1>2, <2>3, <2>5 DEF Picks
  <2> QED BY <2>1, <2>6
<1> QED BY <1>1, <1>2, <1>3

LEMMA CommitStepKeeps ==
  ASSUME FileInv, SyncTypeOK, file' = file, NEW p \in Syncs, CommitStep(p)
  PROVE  SyncTypeOK' /\ (SyncInv => SyncInv')
<1>1. PICK todo : todo = sync[p].todo
  OBVIOUS
<1>2. /\ sync \in [Syncs -> SyncRecords(Len(file))] /\ todo \in Seq(1 .. Len(file)) /\ todo # <<>>
      /\ DOMAIN file = 1 .. Len(file) /\ Len(file) \in Nat /\ doc \in Seq(1 .. Len(file))
  BY <1>1, Types, FileLength DEF CommitStep, SyncRecords
<1>3. Head(todo) \in 1 .. Len(file) /\ Tail(todo) \in Seq(1 .. Len(file))
  BY <1>2
<1>4. doc' = Append(doc, Head(todo)) /\ doc' \in Seq(1 .. Len(file))
  BY <1>1, <1>2, <1>3 DEF CommitStep
<1>0. sync' = [sync EXCEPT ![p] = IF sync[p].pc = "adrift" /\ Tail(sync[p].todo) = <<>> THEN Idle
                                  ELSE [sync[p] EXCEPT !.todo = Tail(sync[p].todo)]]
  BY DEF CommitStep
<1>5. sync' \in [Syncs -> SyncRecords(Len(file))]
  <2>1. Idle \in SyncRecords(Len(file))
    <3>1. [sync EXCEPT ![p] = Idle] \in [Syncs -> SyncRecords(Len(file))]
      BY IdleTyped
    <3> QED BY <1>2, <3>1
  <2>2. [sync[p] EXCEPT !.todo = Tail(todo)] \in SyncRecords(Len(file))
    BY <1>2, <1>3 DEF SyncRecords
  <2>3. (IF sync[p].pc = "adrift" /\ Tail(sync[p].todo) = <<>> THEN Idle
         ELSE [sync[p] EXCEPT !.todo = Tail(sync[p].todo)]) \in SyncRecords(Len(file))
    BY <1>1, <2>1, <2>2
  <2> QED BY <1>0, <1>2, <2>3
<1>6. SyncTypeOK'
  BY <1>2, <1>4, <1>5, TypesBack DEF CommitStep, SyncTypeOK
<1>7. ASSUME SyncInv PROVE SyncInv'
  <2>1. Only(p) /\ sync[p].pc = "appending" /\ lock = p
    <3>1. sync[p].pc # "idle"
      BY DEF CommitStep
    <3>2. Only(p) /\ sync[p].pc # "adrift" /\ (sync[p].pc # "starting" => lock = p)
      BY <1>7, <3>1, OthersRest
    <3> QED BY <3>2 DEF CommitStep
  <2>2. /\ sync'[p].pc = "appending" /\ sync'[p].head = sync[p].head /\ sync'[p].todo = Tail(todo)
        /\ \A q \in Syncs \ {p} : sync'[q] = sync[q]
    <3>1. sync' = [sync EXCEPT ![p] = [sync[p] EXCEPT !.todo = Tail(todo)]]
      BY <1>0, <1>1, <2>1
    <3> QED BY <1>2, <2>1, <3>1 DEF SyncRecords
  <2>3. PICK head : head = sync[p].head
    OBVIOUS
  <2>4. Makes(Range(doc), todo, head) /\ HeadIsPast(p) /\ Rising(doc)
    <3>1. Stage(p) /\ Rising(doc)
      BY <1>7 DEF SyncInv, DocIsABranch
    <3> QED BY <1>1, <1>2, <2>1, <2>3, <3>1 DEF Stage
  <2>5. /\ Rising(Tail(todo)) /\ Head(todo) \in Nat /\ Range(todo) = {Head(todo)} \cup Range(Tail(todo))
        /\ \A y \in Range(Tail(todo)) : Head(todo) < y
    <3>1. Rising(todo)
      BY <2>4 DEF Makes
    <3> QED BY <1>2, <3>1, RisingTail
  <2>6. Rising(doc') /\ Range(doc') = Range(doc) \cup {Head(todo)}
    <3>1. \A y \in Range(doc) : y < Head(todo)
      BY <2>4, <2>5 DEF Makes
    <3> QED BY <1>4, <2>4, <2>5, <3>1, AppendRises
  <2>7. Makes(Range(doc'), Tail(todo), head)
    BY <2>4, <2>5, <2>6 DEF Makes
  <2>8. lock' = p
    BY <2>1 DEF CommitStep
  <2> QED BY <1>7, <2>1, <2>2, <2>3, <2>4, <2>6, <2>7, <2>8, AppendingWell
<1> QED BY <1>6, <1>7

LEMMA TruncateKeeps ==
  ASSUME FileInv, SyncTypeOK, file' = file, NEW p \in Syncs, Truncate(p)
  PROVE  SyncTypeOK' /\ (SyncInv => SyncInv')
<1>1. PICK kept : kept = Indexed(sync[p].cutoff)
  OBVIOUS
<1>2. /\ sync \in [Syncs -> SyncRecords(Len(file))] /\ sync[p].pc = "cutting"
      /\ DOMAIN file = 1 .. Len(file) /\ Len(file) \in Nat /\ doc \in Seq(1 .. Len(file))
      /\ doc' = Among(doc, kept)
  BY <1>1, Types, FileLength DEF Truncate
<1>3. doc' \in Seq(DOMAIN file)
  BY <1>2, AmongTyped
<1>4. /\ sync' \in [Syncs -> SyncRecords(Len(file))]
      /\ sync'[p].pc = "appending" /\ sync'[p].head = sync[p].head /\ sync'[p].todo = sync[p].todo
      /\ \A q \in Syncs \ {p} : sync'[q] = sync[q]
  BY <1>2 DEF Truncate, SyncRecords
<1>5. SyncTypeOK'
  BY <1>3, <1>4, TypesBack DEF Truncate, SyncTypeOK
<1>6. ASSUME SyncInv PROVE SyncInv'
  <2>1. Only(p) /\ lock = p
    BY <1>2, <1>6, OthersRest
  <2>2. lock' = p
    BY <2>1 DEF Truncate
  <2>3. Stage(p) /\ Rising(doc)
    BY <1>6 DEF SyncInv, DocIsABranch
  <2>4. HeadIsPast(p)
    BY <1>2, <2>3 DEF Stage
  <2>5. Rising(doc') /\ Range(doc') = Range(doc) \cap kept
    BY <1>2, <2>3, AmongRises
  <2>6. CASE Makes(Range(doc) \cap kept, sync[p].todo, sync[p].head)
    <3>1. Makes(Range(doc'), sync'[p].todo, sync[p].head)
      BY <1>4, <2>5, <2>6
    <3> QED BY <1>4, <1>6, <2>1, <2>2, <2>4, <2>5, <3>1, AppendingWell
  <2>7. CASE Kind(sync[p].head) = "hook" /\ sync[p].todo = <<>> /\ sync[p].cutoff = All
    <3>1. kept = {}
      <4>1. \A i \in DOMAIN file : Time(i) \in Nat /\ 1 <= Time(i)
        BY TimesRise
      <4> QED BY <1>1, <2>7, <4>1 DEF Indexed, All
    <3>2. doc' = <<>>
      <4> SUFFICES ASSUME doc' # <<>> PROVE FALSE
        OBVIOUS
      <4>1. PICK held : held = doc'
        OBVIOUS
      <4>2. Last(held) \in Range(held)
        BY <2>5, <4>1, RisingLast
      <4> QED BY <2>5, <3>1, <4>1, <4>2
    <3>3. DocIsABranch'
      <4>1. Latest' = None
        BY <3>2 DEF Latest, None
      <4>2. StepsOn(None)' = {}
        <5>1. StepsOn(None) = {}
          BY OnIs DEF StepsOn
        <5> QED BY <5>1, SameFile
      <4>3. Rising(doc)'
        BY <2>5 DEF Rising
      <4>4. Range(doc)' = {}
        BY <2>5, <3>1
      <4> QED BY <4>1, <4>2, <4>3, <4>4 DEF DocIsABranch, None
    <3>4. TiesInHand'
      BY <3>2 DEF TiesInHand
    <3>5. Kind(sync[p].head)' = Kind(sync[p].head)
      BY <1>4 DEF Kind
    <3>6. HeadIsPast(p)'
      <4>1. AllSteps' = AllSteps /\ \A i : Time(i)' = Time(i)
        BY SameFile
      <4> QED BY <1>4, <2>4, <4>1 DEF HeadIsPast
    <3>7. Stage(p)'
      BY <1>4, <2>7, <3>5, <3>6 DEF Stage
    <3> QED BY <1>4, <1>6, <2>1, <2>2, <3>3, <3>4, <3>7, OneSync
  <2> QED BY <1>1, <1>2, <2>3, <2>6, <2>7 DEF Stage
<1> QED BY <1>5, <1>6

-----------------------------------------------------------------------------
(* The plan *)

Planned(p, full, r, cutoff, entries, todo) ==
  /\ full = (sync[p].full \/ TimeEnd = 0)
  /\ r = IF TimeEnd = 0 THEN None ELSE TruncationPoint(sync[p].head, TimeEnd)
  /\ cutoff = IF full /\ TimeEnd # 0 THEN Revert(r, TimeEnd) ELSE NoCut
  /\ entries = IF full
                 THEN IF r = sync[p].head THEN <<>> ELSE BuildAncestryChain(sync[p].head, r)
                 ELSE EntriesAfter(sync[p].head, TimeEnd)
  /\ todo = Among(entries, AllSteps)

\* What follows a plan.
PlanMade(p, full, cutoff, todo) ==
  /\ sync' = [sync EXCEPT ![p].pc = IF cutoff = NoCut THEN "appending" ELSE "cutting",
                          ![p].cutoff = cutoff, ![p].todo = todo]
  /\ spoiled' = spoiled \cup
       (IF ~full /\ todo # <<>> /\ ~(Range(doc) \subseteq Range(BranchSteps(sync[p].head)))
          THEN {"orphan"} ELSE {})

LEMMA PlanIs ==
  ASSUME NEW p \in Syncs, Plan(p)
  PROVE  \E full, r, cutoff, entries, todo :
           Planned(p, full, r, cutoff, entries, todo) /\ PlanMade(p, full, cutoff, todo)
<1> DEFINE full == sync[p].full \/ TimeEnd = 0
           r == IF TimeEnd = 0 THEN None ELSE TruncationPoint(sync[p].head, TimeEnd)
           cutoff == IF full /\ TimeEnd # 0 THEN Revert(r, TimeEnd) ELSE NoCut
           entries == IF full
                        THEN IF r = sync[p].head THEN <<>> ELSE BuildAncestryChain(sync[p].head, r)
                        ELSE EntriesAfter(sync[p].head, TimeEnd)
           todo == Among(entries, AllSteps)
<1>1. Planned(p, full, r, cutoff, entries, todo)
  BY DEF Planned
<1>2. PlanMade(p, full, cutoff, todo)
  BY DEF Plan, PlanMade, StepsOf
<1> HIDE DEF full, r, cutoff, entries, todo
<1> QED BY <1>1, <1>2

LEMMA RecentLinksDown ==
  ASSUME FileInv, NEW end
  PROVE  Downward(RecentLinks(end))
<1>1. DOMAIN file = 1 .. Len(file) /\ Len(file) \in Nat
  BY FileLength
<1>2. Downward(ParentMap) /\ \A i \in DOMAIN file : Reparented(i) \in 0 .. i - 1
  BY ParentMapIs
<1>3. \A i \in DOMAIN file : None \in 0 .. i - 1
  BY <1>1 DEF None
<1>4. Downward([i \in DOMAIN file |-> IF Reparented(i) \in Recent(end) THEN Reparented(i) ELSE None])
  BY <1>2, <1>3 DEF Downward
<1> QED BY <1>2, <1>4 DEF RecentLinks

LEMMA PlanTyped ==
  ASSUME FileInv, SyncTypeOK, NEW p \in Syncs, NEW full, NEW r, NEW cutoff, NEW entries, NEW todo,
         Planned(p, full, r, cutoff, entries, todo)
  PROVE  /\ r \in 0 .. Len(file) /\ cutoff \in 0 .. NoCut /\ todo \in Seq(1 .. Len(file))
         /\ Rising(todo) /\ Rising(entries) /\ Range(todo) = Range(entries) \cap AllSteps
<1>1. PICK head : head = sync[p].head
  OBVIOUS
<1>2. /\ sync \in [Syncs -> SyncRecords(Len(file))] /\ DOMAIN file = 1 .. Len(file)
      /\ Len(file) \in Nat /\ TimeEnd \in Nat /\ TimeEnd <= MaxRecords
  BY Types, FileLength, TimeEndIs
<1>3. head \in 0 .. Len(file)
  BY <1>1, <1>2 DEF SyncRecords
<1>4. r \in 0 .. Len(file)
  <2>1. CASE r = None
    BY <1>2, <2>1 DEF None
  <2>2. CASE r # None
    <3>1. r = TruncationPoint(head, TimeEnd)
      BY <1>1, <2>2 DEF Planned
    <3>2. r \in On(head)
      BY <1>2, <1>3, <2>2, <3>1, TruncationIs
    <3>3. On(head) \subseteq 1 .. head
      BY <1>3, OnIs
    <3> QED BY <1>2, <1>3, <3>2, <3>3
  <2> QED BY <2>1, <2>2
<1>5. cutoff \in 0 .. NoCut
  <2>1. MaxRecords \in Nat /\ All = 0 /\ NoCut = MaxRecords + 1
    BY TranscriptConstants DEF TranscriptConstants, All, NoCut
  <2>2. cutoff = NoCut \/ cutoff = All \/ (r # None /\ cutoff = Time(r))
    BY DEF Planned, Revert
  <2>3. r # None => Time(r) \in Nat /\ Time(r) <= MaxRecords
    <3> SUFFICES ASSUME r # None PROVE Time(r) \in Nat /\ Time(r) <= MaxRecords
      OBVIOUS
    <3>1. r \in DOMAIN file
      BY <1>2, <1>4 DEF None
    <3> QED BY <3>1, TimesRise
  <2> QED BY <2>1, <2>2, <2>3
<1>6. Rising(entries) /\ Range(entries) \subseteq 1 .. Len(file)
  <2>1. CASE entries = <<>>
    BY <2>1, EmptyRises
  <2>2. CASE entries = BuildAncestryChain(head, r)
    <3>1. entries = ChainFrom(head, ParentMap, Hooks \cup {r}) /\ Downward(ParentMap)
      BY <2>2, ParentMapIs DEF BuildAncestryChain
    <3>2. Rising(entries) /\ Range(entries) \subseteq 1 .. head
      BY <1>3, <3>1, ChainRises
    <3> QED BY <1>2, <1>3, <3>2
  <2>3. CASE entries = EntriesAfter(head, TimeEnd)
    <3>1. entries = ChainFrom(head, RecentLinks(TimeEnd), Hooks \cup Indexed(TimeEnd))
          /\ Downward(RecentLinks(TimeEnd))
      BY <2>3, RecentLinksDown DEF EntriesAfter
    <3>2. Rising(entries) /\ Range(entries) \subseteq 1 .. head
      BY <1>3, <3>1, ChainRises
    <3> QED BY <1>2, <1>3, <3>2
  <2> QED BY <1>1, <2>1, <2>2, <2>3 DEF Planned
<1>7. Rising(todo) /\ Range(todo) = Range(entries) \cap AllSteps
  BY <1>6, AmongRises DEF Planned
<1>8. todo \in Seq(1 .. Len(file))
  <2>1. todo \in Seq(Nat) /\ Range(todo) \subseteq 1 .. Len(file)
    BY <1>6, <1>7 DEF Rising
  <2> QED BY <2>1, SeqOfRange
<1> QED BY <1>4, <1>5, <1>6, <1>7, <1>8

\* No hook is a step.
LEMMA StepsAreNoHooks == AllSteps \cap Hooks = {}
BY DEF AllSteps, Hooks, IsStep

\* A fast sync has nothing to append, or its branch goes on from the document.
NoOrphan(full, todo, head) == full \/ todo = <<>> \/ Range(doc) \subseteq StepsOn(head)

ComesTo(p, head, cutoff, todo) ==
  /\ cutoff # NoCut =>
       \/ Kind(head) = "hook" /\ todo = <<>> /\ cutoff = All
       \/ Makes(Range(doc) \cap Indexed(cutoff), todo, head)
  /\ cutoff = NoCut =>
       \/ Makes(Range(doc), todo, head)
       \/ todo = <<>> /\ Kind(head) = "hook"
       \/ todo = <<>> /\ ~sync[p].full /\ ~(Range(doc) \subseteq StepsOn(head))

\* What a plan comes to, with one sync at a time.
LEMMA PlanSound ==
  ASSUME FileInv, SyncTypeOK, SyncInv, NEW p \in Syncs, sync[p].pc = "looking",
         NEW head, head = sync[p].head,
         NEW full, NEW r, NEW cutoff, NEW entries, NEW todo,
         Planned(p, full, r, cutoff, entries, todo),
         NoOrphan(full, todo, head)
  PROVE  ComesTo(p, head, cutoff, todo)
<1>0. full \/ todo = <<>> \/ Range(doc) \subseteq StepsOn(head)
  BY DEF NoOrphan
<1> SUFFICES
      /\ cutoff # NoCut =>
           \/ Kind(head) = "hook" /\ todo = <<>> /\ cutoff = All
           \/ Makes(Range(doc) \cap Indexed(cutoff), todo, head)
      /\ cutoff = NoCut =>
           \/ Makes(Range(doc), todo, head)
           \/ todo = <<>> /\ Kind(head) = "hook"
           \/ todo = <<>> /\ ~sync[p].full /\ ~(Range(doc) \subseteq StepsOn(head))
  BY DEF ComesTo
<1>1. Stage(p) /\ DocIsABranch /\ ForksApart /\ NoReturn /\ TiesInHand
  BY DEF SyncInv
<1>2. HeadIsPast(p) /\ \A d \in Range(doc) : d <= head
  BY <1>1 DEF Stage
<1>3. /\ DOMAIN file = 1 .. Len(file) /\ Len(file) \in Nat /\ head \in DOMAIN file
      /\ head \in 0 .. Len(file) /\ head # None
      /\ TimeEnd \in Nat /\ TimeEnd <= MaxRecords /\ (TimeEnd = 0 <=> doc = <<>>)
  BY <1>2, FileLength, TimeEndIs DEF HeadIsPast, None
<1>4. doc # <<>> => FoundDocument(head)
  <2>1. InHand = {}
    <3>1. InHand = InHandOf(p)
      BY OthersRest
    <3> QED BY <3>1 DEF InHandOf
  <2> QED BY <1>1, <1>2, <1>3, <2>1 DEF FoundDocument, TiesInHand
<1>5. MaxRecords \in Nat /\ All = 0 /\ NoCut = MaxRecords + 1 /\ All # NoCut
  BY TranscriptConstants DEF TranscriptConstants, All, NoCut
<1>6. /\ r \in 0 .. Len(file) /\ Rising(todo) /\ Range(todo) = Range(entries) \cap AllSteps
      /\ entries = <<>> => todo = <<>>
  <2>1. /\ r \in 0 .. Len(file) /\ Rising(todo) /\ Range(todo) = Range(entries) \cap AllSteps
    BY PlanTyped
  <2>2. entries = <<>> => todo = <<>>
    <3>1. entries = <<>> => Range(todo) = {}
      BY <2>1, EmptyRises
    <3>2. todo # <<>> => Range(todo) # {}
      BY <2>1, RisingLast
    <3> QED BY <3>1, <3>2
  <2> QED BY <2>1, <2>2
<1>7. Indexed(All) = {}
  <2>1. \A i \in DOMAIN file : Time(i) \in Nat /\ 1 <= Time(i)
    BY TimesRise
  <2> QED BY <2>1 DEF Indexed, All
<1>8. StepsOn(head) = (On(head) \ Hooks) \cap AllSteps /\ On(head) \subseteq 1 .. head
  BY <1>3, StepsAreNoHooks, OnIs DEF StepsOn
<1>9. ASSUME head \notin Hooks, full, r = None PROVE Makes({}, todo, head)
  <2>1. entries = BuildAncestryChain(head, r)
    BY <1>3, <1>9 DEF Planned
  <2>2. r \notin Hooks
    BY <1>3, <1>9 DEF Hooks, None
  <2>3. Range(entries) = {i \in On(head) \ Hooks : i > r}
    BY <1>3, <1>6, <1>9, <2>1, <2>2, AncestryIs
  <2>4. \A i \in On(head) : i > r
    BY <1>3, <1>8, <1>9 DEF None
  <2>5. Range(todo) = StepsOn(head)
    BY <1>6, <1>8, <2>3, <2>4
  <2> QED BY <1>6, <2>5 DEF Makes
<1>10. CASE head \in Hooks
  <2>1. TimeEnd # 0 => r = None
    <3> SUFFICES ASSUME TimeEnd # 0, r # None PROVE FALSE
      OBVIOUS
    <3>1. r = TruncationPoint(head, TimeEnd)
      BY <1>10 DEF Planned
    <3> QED BY <1>3, <1>10, <3>1, TruncationIs
  <2>2. r = None
    BY <2>1 DEF Planned
  <2>3. entries = <<>>
    <3>1. Downward(ParentMap) /\ Downward(RecentLinks(TimeEnd))
      BY ParentMapIs, RecentLinksDown
    <3>2. BuildAncestryChain(head, r) = <<>>
      BY <1>10, <3>1, NothingBehindAHook DEF BuildAncestryChain
    <3>3. EntriesAfter(head, TimeEnd) = <<>>
      BY <1>10, <3>1, NothingBehindAHook DEF EntriesAfter
    <3> QED BY <3>2, <3>3 DEF Planned
  <2>4. cutoff = All \/ cutoff = NoCut
    BY <2>2 DEF Planned, Revert
  <2>5. Kind(head) = "hook"
    BY <1>10 DEF Hooks
  <2> QED BY <1>6, <2>3, <2>4, <2>5
<1>11. CASE head \notin Hooks /\ doc = <<>>
  <2>1. TimeEnd = 0 /\ full /\ r = None /\ cutoff = NoCut
    BY <1>3, <1>11 DEF Planned
  <2>2. Range(doc) = {}
    BY <1>11, EmptyRises
  <2> QED BY <1>9, <1>11, <2>1, <2>2
<1>12. CASE head \notin Hooks /\ doc # <<>> /\ full /\ r = None
  <2>1. cutoff = All
    BY <1>3, <1>12 DEF Planned, Revert
  <2>2. Range(doc) \cap Indexed(cutoff) = {}
    BY <1>7, <2>1
  <2> QED BY <1>5, <1>9, <1>12, <2>1, <2>2
<1>13. CASE head \notin Hooks /\ doc # <<>> /\ full /\ r # None
  <2>1. r = TruncationPoint(head, TimeEnd) /\ cutoff = Revert(r, TimeEnd)
    BY <1>3, <1>13 DEF Planned
  <2>2. /\ r \in On(head) /\ r \notin Hooks /\ r \in DOMAIN file /\ Time(r) <= TimeEnd
        /\ StepsOn(r) = UpTo(StepsOn(head), r)
        /\ Time(r) < TimeEnd => Range(doc) \cap Indexed(Time(r)) = StepsOn(r)
        /\ Time(r) = TimeEnd => Range(doc) = StepsOn(r)
    BY <1>4, <1>13, <2>1, CutsWell
  <2>3. Time(r) \in Nat /\ Time(r) <= MaxRecords
    BY <2>2, TimesRise
  <2>4. Range(todo) = {i \in StepsOn(head) : i > r}
    <3>1. CASE r = head
      <4>1. entries = <<>>
        BY <1>13, <3>1 DEF Planned
      <4>2. Range(todo) = {}
        BY <1>6, <4>1, EmptyRises
      <4>3. \A i \in StepsOn(head) : ~(i > r)
        BY <1>3, <1>8, <3>1
      <4> QED BY <4>2, <4>3
    <3>2. CASE r # head
      <4>1. entries = BuildAncestryChain(head, r)
        BY <1>13, <3>2 DEF Planned
      <4>2. Range(entries) = {i \in On(head) \ Hooks : i > r}
        BY <1>3, <1>6, <1>13, <2>2, <4>1, AncestryIs
      <4> QED BY <1>6, <1>8, <4>2
    <3> QED BY <3>1, <3>2
  <2>5. Makes(StepsOn(r), todo, head)
    <3>1. \A i \in StepsOn(head) : i \in Nat /\ r \in Nat
      BY <1>3, <1>6, <1>8
    <3>2. \A d \in StepsOn(r) : \A t \in Range(todo) : d < t
      BY <2>2, <2>4, <3>1 DEF UpTo
    <3>3. \A i \in StepsOn(head) : i <= r \/ i > r
      BY <3>1
    <3>4. StepsOn(r) \cup Range(todo) = StepsOn(head)
      BY <2>2, <2>4, <3>3 DEF UpTo
    <3> QED BY <1>6, <3>2, <3>4 DEF Makes
  <2>6. CASE Time(r) < TimeEnd
    <3>1. cutoff = Time(r)
      BY <1>13, <2>1, <2>6 DEF Revert
    <3>2. cutoff # NoCut
      BY <1>5, <2>3, <3>1
    <3> QED BY <2>2, <2>5, <2>6, <3>1, <3>2
  <2>7. CASE Time(r) = TimeEnd
    <3>1. cutoff = NoCut
      <4>1. ~(Time(r) < TimeEnd)
        BY <1>3, <2>7
      <4> QED BY <1>13, <2>1, <4>1 DEF Revert
    <3> QED BY <2>2, <2>5, <2>7, <3>1
  <2> QED BY <1>3, <2>2, <2>3, <2>6, <2>7
<1>14. CASE head \notin Hooks /\ doc # <<>> /\ ~full
  <2>1. entries = EntriesAfter(head, TimeEnd) /\ cutoff = NoCut /\ ~sync[p].full
    BY <1>14 DEF Planned
  <2>2. Range(entries) = (On(head) \ Hooks) \ Indexed(TimeEnd)
    BY <1>3, <1>14, <2>1, EntriesAre
  <2>3. Range(todo) = StepsOn(head) \ Indexed(TimeEnd)
    BY <1>6, <1>8, <2>2
  <2>4. CASE Range(doc) \subseteq StepsOn(head)
    <3>1. /\ Range(doc) \cup (StepsOn(head) \ Indexed(TimeEnd)) = StepsOn(head)
          /\ \A d \in Range(doc) : \A t \in StepsOn(head) \ Indexed(TimeEnd) : d < t
      BY <1>4, <1>14, <2>4, GoesOn
    <3>2. Makes(Range(doc), todo, head)
      BY <1>6, <2>3, <3>1 DEF Makes
    <3> QED BY <2>1, <3>2
  <2>5. CASE ~(Range(doc) \subseteq StepsOn(head))
    BY <1>0, <1>14, <2>1, <2>5
  <2> QED BY <2>4, <2>5
<1> QED BY <1>10, <1>11, <1>12, <1>13, <1>14

LEMMA PlanKeeps ==
  ASSUME FileInv, SyncTypeOK, file' = file, NEW p \in Syncs, Plan(p)
  PROVE  SyncTypeOK' /\ (spoiled' = {} => spoiled = {} /\ (SyncInv => SyncInv'))
<1>1. PICK full, r, cutoff, entries, todo :
        Planned(p, full, r, cutoff, entries, todo) /\ PlanMade(p, full, cutoff, todo)
  BY PlanIs
<1>2. /\ sync \in [Syncs -> SyncRecords(Len(file))] /\ sync[p].pc = "looking" /\ doc' = doc
      /\ Len(file) \in Nat /\ DOMAIN file = 1 .. Len(file)
  BY Types, FileLength DEF Plan
<1>3. cutoff \in 0 .. NoCut /\ todo \in Seq(1 .. Len(file))
  BY <1>1, PlanTyped
<1>4. PICK pc : pc = IF cutoff = NoCut THEN "appending" ELSE "cutting"
  OBVIOUS
<1>5. sync' = [sync EXCEPT ![p].pc = pc, ![p].cutoff = cutoff, ![p].todo = todo]
  BY <1>1, <1>4 DEF PlanMade
<1>6. /\ sync' \in [Syncs -> SyncRecords(Len(file))]
      /\ sync'[p].pc = pc /\ sync'[p].head = sync[p].head /\ sync'[p].full = sync[p].full
      /\ sync'[p].cutoff = cutoff /\ sync'[p].todo = todo
      /\ \A q \in Syncs \ {p} : sync'[q] = sync[q]
  BY <1>2, <1>3, <1>4, <1>5 DEF SyncRecords
<1>7. SyncTypeOK'
  <2>1. spoiled' \subseteq {"tie", "orphan", "return", "race", "adrift"}
    BY <1>1 DEF PlanMade, SyncTypeOK
  <2> QED BY <1>6, <2>1, TypesBack DEF Plan, SyncTypeOK
<1>8. ASSUME spoiled' = {}, SyncInv PROVE SyncInv'
  <2>1. PICK head : head = sync[p].head
    OBVIOUS
  <2>2. Stage(p) /\ HeadIsPast(p)
    BY <1>2, <1>8 DEF SyncInv, Stage
  <2>3. NoOrphan(full, todo, head)
    <3>1. head \in 0 .. Len(file)
      BY <1>2, <2>1 DEF SyncRecords
    <3>2. Range(BranchSteps(head)) = StepsOn(head)
      BY <3>1, BranchStepsIs
    <3>3. full \/ todo = <<>> \/ Range(doc) \subseteq Range(BranchSteps(head))
      BY <1>1, <1>8, <2>1 DEF PlanMade
    <3> QED BY <3>2, <3>3 DEF NoOrphan
  <2>4. /\ cutoff # NoCut =>
              \/ Kind(head) = "hook" /\ todo = <<>> /\ cutoff = All
              \/ Makes(Range(doc) \cap Indexed(cutoff), todo, head)
        /\ cutoff = NoCut =>
              \/ Makes(Range(doc), todo, head)
              \/ todo = <<>> /\ Kind(head) = "hook"
              \/ todo = <<>> /\ ~sync[p].full /\ ~(Range(doc) \subseteq StepsOn(head))
    <3>1. Planned(p, full, r, cutoff, entries, todo)
      BY <1>1
    <3>2. sync[p].pc = "looking"
      BY <1>2
    <3>3. ComesTo(p, head, cutoff, todo)
      BY <1>8, <2>1, <2>3, <3>1, <3>2, PlanSound
    <3> QED BY <3>3 DEF ComesTo
  <2>5. Only(p) /\ InHand = {} /\ lock = p
    <3>1. Only(p) /\ lock = p /\ InHand = InHandOf(p)
      BY <1>2, <1>8, OthersRest
    <3> QED BY <1>2, <3>1 DEF InHandOf
  <2>6. /\ AllSteps' = AllSteps /\ Indexed(cutoff)' = Indexed(cutoff)
        /\ \A i : Time(i)' = Time(i) /\ StepsOn(i)' = StepsOn(i) /\ Kind(i)' = Kind(i)
    BY SameFile
  <2>7. PICK l : l = Latest
    OBVIOUS
  <2>8. Latest' = l
    BY <1>2, <2>7 DEF Latest, None
  <2>9. DocIsABranch'
    <3>1. StepsOn(Latest)' = StepsOn(l)
      BY <2>6, <2>8
    <3> QED BY <1>2, <1>8, <2>7, <3>1 DEF SyncInv, DocIsABranch, Rising
  <2>10. TiesInHand'
    <3>1. Time(Latest)' = Time(l)
      BY <2>6, <2>8
    <3> QED BY <1>2, <1>8, <2>5, <2>6, <2>7, <2>8, <3>1 DEF SyncInv, TiesInHand
  <2>11. HeadIsPast(p)'
    BY <1>6, <2>2, <2>6 DEF HeadIsPast
  <2>12. /\ Kind(sync[p].head)' = Kind(head) /\ StepsOn(sync[p].head)' = StepsOn(head)
         /\ Range(doc)' = Range(doc) /\ Indexed(sync[p].cutoff)' = Indexed(cutoff)
    <3>1. sync'[p].head = head /\ sync'[p].cutoff = cutoff
      BY <1>6, <2>1
    <3>2. Indexed(sync[p].cutoff)' = Indexed(cutoff)'
      BY <3>1 DEF Indexed
    <3> QED BY <1>2, <2>6, <3>1, <3>2
  <2>13. ASSUME NEW held PROVE Makes(held, todo, head) => Makes(held, sync[p].todo, sync[p].head)'
    BY <1>6, <2>1, <2>12 DEF Makes, Rising
  <2>14. Stage(p)'
    <3>1. CASE cutoff = NoCut
      <4>1. sync'[p].pc = "appending"
        BY <1>4, <1>6, <3>1
      <4>2. \/ Makes(Range(doc), sync[p].todo, sync[p].head)'
            \/ todo = <<>> /\ Kind(head) = "hook"
            \/ todo = <<>> /\ ~sync[p].full /\ ~(Range(doc) \subseteq StepsOn(head))
        BY <1>2, <2>4, <2>13, <3>1 DEF Makes, Rising
      <4> QED BY <1>2, <1>6, <2>11, <2>12, <4>1, <4>2 DEF Stage
    <3>2. CASE cutoff # NoCut
      <4>1. sync'[p].pc = "cutting"
        BY <1>4, <1>6, <3>2
      <4>2. \/ Kind(head) = "hook" /\ todo = <<>> /\ cutoff = All
            \/ Makes(Range(doc) \cap Indexed(sync[p].cutoff), sync[p].todo, sync[p].head)'
        BY <1>2, <2>4, <2>12, <2>13, <3>2 DEF Makes, Rising
      <4> QED BY <1>2, <1>6, <2>11, <2>12, <4>1, <4>2 DEF Stage, All
    <3> QED BY <3>1, <3>2
  <2>15. lock' = p
    BY <2>5 DEF Plan
  <2>16. sync'[p].pc # "idle" /\ sync'[p].pc # "adrift"
    BY <1>4, <1>6
  <2> QED BY <1>6, <1>8, <2>5, <2>9, <2>10, <2>14, <2>15, <2>16, OneSync
<1> QED BY <1>1, <1>7, <1>8 DEF PlanMade

-----------------------------------------------------------------------------
(* The editor's steps *)

\* Bigger transcripts type what smaller ones typed.
LEMMA TypesGrow ==
  ASSUME FileInv, SyncTypeOK, Extends, UNCHANGED <<doc, lock, sync, faults>>,
         spoiled' \subseteq {"tie", "orphan", "return", "race", "adrift"}
  PROVE  SyncTypeOK'
<1>1. /\ Len(file) \in Nat /\ Len(file') \in Nat /\ Len(file) <= Len(file')
      /\ DOMAIN file = 1 .. Len(file) /\ DOMAIN file' = 1 .. Len(file')
  BY FileLength, OldRecords DEF Extends
<1>2. Seq(1 .. Len(file)) \subseteq Seq(1 .. Len(file'))
  <2>1. 1 .. Len(file) \subseteq 1 .. Len(file')
    BY <1>1
  <2> QED BY <2>1, SeqMonotonic
<1>3. doc \in Seq(1 .. Len(file)) /\ sync \in [Syncs -> SyncRecords(Len(file))]
  BY <1>1, Types
<1>4. SyncRecords(Len(file)) \subseteq SyncRecords(Len(file'))
  <2>1. 0 .. Len(file) \subseteq 0 .. Len(file')
    BY <1>1
  <2> QED BY <1>2, <2>1 DEF SyncRecords
<1>5. doc' \in Seq(DOMAIN file')
  BY <1>1, <1>2, <1>3
<1>6. sync' \in [Syncs -> SyncRecords(Len(file'))]
  BY <1>3, <1>4
<1> QED BY <1>1, <1>5, <1>6 DEF SyncTypeOK, SyncRecords, NoCut, Unlocked, Dead

LEMMA EditorKeeps ==
  ASSUME FileInv, SyncTypeOK, EditorWrites
  PROVE  /\ FileInv' /\ SyncTypeOK'
         /\ spoiled' = {} => spoiled = {} /\ (SyncInv => SyncInv')
<1>1. CASE \E kind \in {"reply", "note", "hook"}, time \in {LastTime, LastTime + 1} \ {0} :
             /\ Say(kind, time)
             /\ spoiled' = spoiled \cup (IF time = LastTime /\ Taken(time) THEN {"tie"} ELSE {})
             /\ UNCHANGED <<doc, lock, sync, faults>>
  <2>1. PICK kind \in {"reply", "note", "hook"}, time \in {LastTime, LastTime + 1} \ {0} :
             /\ Say(kind, time)
             /\ spoiled' = spoiled \cup (IF time = LastTime /\ Taken(time) THEN {"tie"} ELSE {})
             /\ UNCHANGED <<doc, lock, sync, faults>>
    BY <1>1
  <2>2. kind \in Kinds \ {"summary"}
    BY DEF Kinds
  <2>3. FileInv' /\ Extends
    BY <2>1, <2>2, SayGrows
  <2>4. SyncTypeOK'
    BY <2>1, <2>3, TypesGrow DEF SyncTypeOK
  <2>5. ASSUME spoiled' = {}, SyncInv PROVE SyncInv'
    <3>1. time = LastTime => ~Taken(time)
      BY <2>1, <2>5
    <3>2. ForksApart /\ NoReturn
      BY <2>5 DEF SyncInv
    <3>3. WritesWell
      BY <2>1, <2>2, <3>1, <3>2, SayWrites
    <3> QED BY <2>1, <2>5, <3>3, EditorKeepsSync
  <2> QED BY <2>1, <2>3, <2>4, <2>5
<1>2. CASE \E kind \in {"reply", "note"}, parent \in (None .. Len(file) - 1) \ Hooks :
             /\ BranchOff(kind, parent)
             /\ spoiled' = spoiled
                  \cup (IF parent # None /\ Time(parent) = Time(parent + 1) THEN {"tie"} ELSE {})
                  \cup (IF TakenUpAgain(parent) THEN {"return"} ELSE {})
             /\ UNCHANGED <<doc, lock, sync, faults>>
  <2>1. PICK kind \in {"reply", "note"}, parent \in (None .. Len(file) - 1) \ Hooks :
             /\ BranchOff(kind, parent)
             /\ spoiled' = spoiled
                  \cup (IF parent # None /\ Time(parent) = Time(parent + 1) THEN {"tie"} ELSE {})
                  \cup (IF TakenUpAgain(parent) THEN {"return"} ELSE {})
             /\ UNCHANGED <<doc, lock, sync, faults>>
    BY <1>2
  <2>2. parent \in None .. Len(file) - 1 /\ parent \notin {j \in DOMAIN file : Kind(j) = "hook"}
    BY DEF Hooks
  <2>3. FileInv' /\ Extends
    BY <2>1, <2>2, BranchGrows
  <2>4. SyncTypeOK'
    BY <2>1, <2>3, TypesGrow DEF SyncTypeOK
  <2>5. ASSUME spoiled' = {}, SyncInv PROVE SyncInv'
    <3>1. (parent # None => Time(parent) # Time(parent + 1)) /\ ~TakenUpAgain(parent)
      BY <2>1, <2>5
    <3>2. ForksApart /\ NoReturn
      BY <2>5 DEF SyncInv
    <3>3. WritesWell
      BY <2>1, <2>2, <3>1, <3>2, BranchWrites
    <3> QED BY <2>1, <2>5, <3>3, EditorKeepsSync
  <2> QED BY <2>1, <2>3, <2>4, <2>5
<1>3. CASE Compact /\ UNCHANGED syncVars
  <2>1. FileInv' /\ Extends /\ UNCHANGED <<doc, lock, sync, faults>> /\ spoiled' = spoiled
    BY <1>3, CompactFits DEF syncVars
  <2>2. SyncTypeOK'
    BY <2>1, TypesGrow DEF SyncTypeOK
  <2>3. ASSUME SyncInv PROVE SyncInv'
    <3>1. ForksApart /\ NoReturn
      BY <2>3 DEF SyncInv
    <3>2. WritesWell
      BY <1>3, <3>1, CompactWrites
    <3> QED BY <2>1, <2>3, <3>2, EditorKeepsSync
  <2> QED BY <2>1, <2>2, <2>3
<1> QED BY <1>1, <1>2, <1>3 DEF EditorWrites

LEMMA SyncStepKeeps ==
  ASSUME FileInv, SyncTypeOK, file' = file, NEW p \in Syncs, SyncStep(p)
  PROVE  SyncTypeOK' /\ (spoiled' = {} => spoiled = {} /\ (SyncInv => SyncInv'))
<1>1. CASE \E full \in BOOLEAN : HookFires(p, full)
  BY <1>1, HookFiresKeeps
<1>2. CASE WriteLock(p)
  BY <1>2, WriteLockKeeps DEF WriteLock
<1>3. CASE ReadHead(p)
  BY <1>3, ReadHeadKeeps DEF ReadHead
<1>4. CASE EmptyTranscript(p)
  BY <1>4, EmptyTranscriptKeeps DEF EmptyTranscript
<1>5. CASE Plan(p)
  BY <1>5, PlanKeeps
<1>6. CASE Truncate(p)
  BY <1>6, TruncateKeeps DEF Truncate
<1>7. CASE CommitStep(p)
  <2>1. spoiled' = spoiled
    BY <1>7 DEF CommitStep
  <2> QED BY <1>7, <2>1, CommitStepKeeps
<1>8. CASE Finish(p)
  BY <1>8, FinishKeeps DEF Finish
<1>9. CASE Fail(p)
  BY <1>9, FailKeeps
<1>10. CASE Kill(p)
  BY <1>10, KillKeeps
<1> QED BY <1>1, <1>2, <1>3, <1>4, <1>5, <1>6, <1>7, <1>8, <1>9, <1>10 DEF SyncStep

\* The transcript of an adapter that counts has no hooks.
LEMMA GrowsKeeps ==
  ASSUME FileInv, SyncTypeOK, Hooks = {}, TranscriptGrows, UNCHANGED syncVars
  PROVE  FileInv' /\ SyncTypeOK' /\ Hooks' = {}
<1>1. Len(file) \in Nat /\ DOMAIN file = 1 .. Len(file) /\ LastTime \in Nat
  BY FileLength, LastTimeIs
<1>2. LastTime + 1 \in {LastTime, LastTime + 1} \ {0}
  BY <1>1
<1>3. /\ FileInv' /\ Extends
      /\ \A i \in DOMAIN file' \ DOMAIN file : file'[i].kind # "hook"
  <2>1. CASE \E kind \in {"prompt", "reply", "note"} : Say(kind, LastTime + 1)
    <3>1. PICK kind \in {"prompt", "reply", "note"} : Say(kind, LastTime + 1)
      BY <2>1
    <3>2. kind \in Kinds \ {"summary"}
      BY DEF Kinds
    <3>3. /\ FileInv' /\ Extends /\ Len(file') = Len(file) + 1
          /\ file'[Len(file) + 1] = [parent |-> Len(file), after |-> Len(file),
                                     time |-> LastTime + 1, kind |-> kind]
      BY <1>2, <3>1, <3>2, SayGrows
    <3>4. \A i \in DOMAIN file' \ DOMAIN file : i = Len(file) + 1
      BY <1>1, <3>3, OldRecords
    <3> QED BY <3>3, <3>4
  <2>2. CASE \E parent \in None .. Len(file) - 1 : BranchOff("reply", parent)
    <3>1. PICK parent \in None .. Len(file) - 1 : BranchOff("reply", parent)
      BY <2>2
    <3>2. parent \notin {j \in DOMAIN file : Kind(j) = "hook"}
      BY DEF Hooks
    <3>3. FileInv' /\ Extends /\ Len(file') = Len(file) + 1 /\ file'[Len(file) + 1].kind = "reply"
      BY <3>1, <3>2, BranchGrows
    <3>4. \A i \in DOMAIN file' \ DOMAIN file : i = Len(file) + 1
      BY <1>1, <3>3, OldRecords
    <3> QED BY <3>3, <3>4
  <2>3. CASE Compact
    <3>1. /\ FileInv' /\ Extends /\ Len(file') = Len(file) + 2
          /\ file'[Len(file) + 1].kind = "note" /\ file'[Len(file) + 2].kind = "summary"
      BY <2>3, CompactFits
    <3>2. \A i \in DOMAIN file' \ DOMAIN file : i = Len(file) + 1 \/ i = Len(file) + 2
      BY <1>1, <3>1, OldRecords
    <3> QED BY <3>1, <3>2
  <2> QED BY <2>1, <2>2, <2>3 DEF TranscriptGrows
<1>4. SyncTypeOK'
  BY <1>3, TypesGrow DEF syncVars, SyncTypeOK
<1>5. Hooks' = {}
  <2>1. \A i \in DOMAIN file : Kind(i)' = Kind(i) /\ Kind(i) # "hook"
    BY <1>3, OldRecords DEF Hooks
  <2>2. \A i \in DOMAIN file' : Kind(i)' # "hook"
    BY <1>3, <2>1 DEF Kind
  <2> QED BY <2>2 DEF Hooks
<1> QED BY <1>3, <1>4, <1>5

-----------------------------------------------------------------------------
(* The adapters that count *)

UnitLists == Seq(Seq(Nat))

CountedTypeOK ==
  /\ turns \in BOOLEAN
  /\ stored \in UnitLists
  /\ saved \in [synced : Nat, entries : UnitLists]
  /\ run \in [pc : {"idle", "appending"}, all : UnitLists, todo : UnitLists]
  /\ disturbed \in BOOLEAN

\* The units done and the units to do, one after the other.
Joins(done, todo, all) ==
  /\ Len(all) = Len(done) + Len(todo)
  /\ \A i \in 1 .. Len(done) : done[i] = all[i]
  /\ \A i \in 1 .. Len(todo) : todo[i] = all[Len(done) + i]

Starts(part, all) == Len(part) <= Len(all) /\ \A i \in 1 .. Len(part) : part[i] = all[i]

CountInv ==
  /\ Len(saved.entries) = saved.synced
  /\ run.pc = "idle" => saved.entries = stored
  /\ run.pc = "appending" => Starts(saved.entries, run.all) /\ Joins(stored, run.todo, run.all)

LEMMA StepsTyped ==
  ASSUME FileInv
  PROVE  Steps \in UnitLists
<1>1. Len(file) \in Nat /\ DOMAIN file = 1 .. Len(file)
  BY FileLength
<1>2. Downward(OpenclawParents)
  <2> SUFFICES ASSUME NEW i \in DOMAIN file PROVE OpenclawParents[i] \in 0 .. i - 1
    BY DEF Downward
  <2>1. file[i] \in FileRecords /\ file[i].parent < i /\ i \in Nat
    BY <1>1 DEF FileInv, WellLinked
  <2>2. file[i].parent \in 0 .. i - 1
    BY <2>1 DEF FileRecords
  <2>3. LastRegular(i) \in 0 .. i - 1
    <3> DEFINE S == {j \in 1 .. i - 1 : Kind(j) # "summary"}
    <3>1. i - 1 \in Nat /\ S \in SUBSET (1 .. i - 1)
      BY <1>1
    <3>2. LastOf(S) \in Nat /\ LastOf(S) <= i - 1
      <4> HIDE DEF S
      <4> QED BY <3>1, LastOfIs
    <3> QED BY <3>1, <3>2 DEF LastRegular
  <2> QED BY <2>2, <2>3 DEF OpenclawParents
<1>3. CurrentHead \in 0 .. Len(file)
  <2> DEFINE S == {i \in DOMAIN file : Kind(i) # "summary"}
  <2>1. S \in SUBSET (1 .. Len(file))
    BY <1>1
  <2>2. LastOf(S) \in Nat /\ LastOf(S) <= Len(file)
    <3> HIDE DEF S
    <3> QED BY <1>1, <2>1, LastOfIs
  <2> QED BY <1>1, <2>2 DEF CurrentHead
<1>4. Rising(ChainFrom(CurrentHead, OpenclawParents, {}))
  BY <1>2, <1>3, ChainRises
<1> DEFINE chain == StepsOf(ChainFrom(CurrentHead, OpenclawParents, {}))
<1>5. chain \in Seq(Nat)
  BY <1>4, AmongRises DEF StepsOf, Rising
<1>6. Steps = [n \in DOMAIN chain |-> <<chain[n]>>]
  BY DEF Steps
<1> HIDE DEF chain
<1>7. Len(chain) \in Nat /\ DOMAIN chain = 1 .. Len(chain) /\ \A n \in DOMAIN chain : chain[n] \in Nat
  BY <1>5
<1>8. \A n \in DOMAIN chain : <<chain[n]>> \in Seq(Nat)
  BY <1>7
<1>9. [n \in DOMAIN chain |-> <<chain[n]>>] \in [1 .. Len(chain) -> Seq(Nat)]
  BY <1>7, <1>8
<1>10. [n \in DOMAIN chain |-> <<chain[n]>>] \in Seq(Seq(Nat))
  BY <1>7, <1>9
<1> QED BY <1>6, <1>10 DEF UnitLists

LEMMA TurnsTyped ==
  ASSUME FileInv
  PROVE  GroupIntoTurns \in UnitLists
<1> DEFINE M == Messages
           N == Len(M)
           V == UnitLists
           starts(n) == Kind(M[n]) = "prompt"
           longer(v, n) == IF v = <<>> THEN v ELSE [v EXCEPT ![Len(v)] = Append(@, M[n])]
           goes == [n \in 0 .. N |-> n - 1]
           base == [n \in 0 .. N |-> <<>>]
           makes == [p \in (0 .. N) \X V |-> IF starts(p[1]) THEN Append(p[2], <<M[p[1]]>>)
                                             ELSE longer(p[2], p[1])]
           Grows(f) == f = [n \in 0 .. N |->
                             IF n = 0 THEN <<>>
                             ELSE IF starts(n) THEN Append(f[n - 1], <<M[n]>>)
                             ELSE longer(f[n - 1], n)]
<1>1. M \in Seq(Nat)
  <2>1. Len(file) \in Nat
    BY FileLength
  <2>2. PICK all : all = [i \in 1 .. Len(file) |-> i]
    OBVIOUS
  <2>3. Rising(all)
    <3>1. all \in [1 .. Len(file) -> Nat]
      BY <2>2
    <3>2. all \in Seq(Nat)
      BY <2>1, <3>1
    <3> QED BY <2>1, <2>2, <3>2 DEF Rising
  <2>4. M = Among(all, AllSteps)
    BY <2>2 DEF Messages, StepsOf
  <2> HIDE DEF M
  <2> QED BY <2>3, <2>4, AmongRises DEF Rising
<1> HIDE DEF M
<1>2. N \in Nat /\ \A n \in 1 .. N : M[n] \in Nat
  BY <1>1
<1>3. \A n \in 0 .. N : \A v \in V : makes[<<n, v>>] = IF starts(n) THEN Append(v, <<M[n]>>)
                                                       ELSE longer(v, n)
  <2> HIDE DEF V, N, longer, starts
  <2> QED OBVIOUS
<1>4. ASSUME NEW n \in 1 .. N, NEW v \in V PROVE Append(v, <<M[n]>>) \in V /\ longer(v, n) \in V
  <2>1. M[n] \in Nat /\ <<M[n]>> \in Seq(Nat)
    BY <1>2
  <2>2. Append(v, <<M[n]>>) \in V
    BY <2>1, AppendProperties DEF UnitLists
  <2>3. CASE v = <<>>
    <3>1. longer(v, n) = v
      BY <2>3
    <3> HIDE DEF longer
    <3> QED BY <2>2, <3>1
  <2>4. CASE v # <<>>
    <3>1. v \in [1 .. Len(v) -> Seq(Nat)] /\ Len(v) \in Nat /\ Len(v) \in 1 .. Len(v)
      BY <2>4 DEF UnitLists
    <3>2. Append(v[Len(v)], M[n]) \in Seq(Nat)
      BY <2>1, <3>1, AppendProperties
    <3>3. [v EXCEPT ![Len(v)] = Append(@, M[n])] \in [1 .. Len(v) -> Seq(Nat)]
      BY <3>1, <3>2
    <3>4. [v EXCEPT ![Len(v)] = Append(@, M[n])] \in Seq(Seq(Nat))
      BY <3>1, <3>3
    <3>5. longer(v, n) = [v EXCEPT ![Len(v)] = Append(@, M[n])]
      BY <2>4
    <3> HIDE DEF longer
    <3> QED BY <2>2, <3>4, <3>5 DEF UnitLists
  <2> QED BY <2>2, <2>3, <2>4
<1>5. Scheme(N, {0}, goes, base, makes, V)
  <2>1. \A n \in 0 .. N : n \notin {0} => goes[n] \in 0 .. n - 1 /\ n \in 1 .. N
    BY <1>2
  <2>2. \A n \in 0 .. N : base[n] \in V
    BY EmptySeq DEF UnitLists
  <2>3. ASSUME NEW n \in 0 .. N, n \notin {0}, NEW v \in V PROVE makes[<<n, v>>] \in V
    <3>1. n \in 1 .. N
      BY <2>1, <2>3
    <3> HIDE DEF makes, longer, starts, V, N
    <3> QED BY <1>3, <1>4, <2>3, <3>1
  <2> HIDE DEF makes, base, goes, N, V
  <2> QED BY <1>2, <2>1, <2>2, <2>3 DEF Scheme
<1>6. PICK f \in [0 .. N -> V] : Follows(f, N, {0}, goes, base, makes)
  <2> HIDE DEF makes, base, goes, N, V
  <2> QED BY <1>5, RecursionWorks
<1>7. \A n \in 0 .. N : f[n] = IF n = 0 THEN <<>>
                               ELSE IF starts(n) THEN Append(f[n - 1], <<M[n]>>)
                               ELSE longer(f[n - 1], n)
  <2> SUFFICES ASSUME NEW n \in 0 .. N
               PROVE  f[n] = IF n = 0 THEN <<>>
                             ELSE IF starts(n) THEN Append(f[n - 1], <<M[n]>>)
                             ELSE longer(f[n - 1], n)
    OBVIOUS
  <2>1. f[n] = IF n \in {0} THEN base[n] ELSE makes[<<n, f[goes[n]]>>]
    BY <1>6 DEF Follows
  <2>2. base[n] = <<>> /\ goes[n] = n - 1
    OBVIOUS
  <2>3. n # 0 => f[n - 1] \in V
    <3>1. n # 0 => n - 1 \in 0 .. N
      BY <1>2
    <3> HIDE DEF V, N
    <3> QED BY <1>6, <3>1
  <2> HIDE DEF makes, base, goes, V, longer, starts, N
  <2> QED BY <1>3, <2>1, <2>2, <2>3
<1>8. Grows(f)
  <2>1. f = [n \in 0 .. N |-> f[n]]
    BY <1>6
  <2> HIDE DEF N, V, longer, starts
  <2> QED BY <1>7, <2>1
<1>9. GroupIntoTurns = (CHOOSE g : Grows(g))[N]
  BY DEF GroupIntoTurns, M
<1> DEFINE grown == CHOOSE g : Grows(g)
<1>10. Grows(grown)
  <2> HIDE DEF Grows
  <2> QED BY <1>8
<1>11. GroupIntoTurns = grown[N]
  BY <1>9
<1> HIDE DEF grown
<1>12. \A n \in 0 .. N : grown[n] = IF n = 0 THEN <<>>
                                    ELSE IF starts(n) THEN Append(grown[n - 1], <<M[n]>>)
                                    ELSE longer(grown[n - 1], n)
  <2> HIDE DEF N, longer, starts
  <2> QED BY <1>10
<1> DEFINE Untyped == {n \in 0 .. N : grown[n] \notin V}
<1>13. Untyped = {}
  <2> SUFFICES ASSUME Untyped # {} PROVE FALSE
    OBVIOUS
  <2>1. PICK k \in Untyped : \A y \in Untyped : k <= y
    <3>1. Untyped \in SUBSET Nat
      BY <1>2
    <3> HIDE DEF Untyped
    <3> QED BY <3>1, LeastNat
  <2>2. <<>> \in V
    BY EmptySeq DEF UnitLists
  <2>3. k # 0
    <3> HIDE DEF longer, starts, V, N
    <3> QED BY <1>12, <2>1, <2>2
  <2>4. k \in 1 .. N /\ k - 1 \in 0 .. N
    BY <1>2, <2>1, <2>3
  <2>5. grown[k - 1] \in V
    <3>1. k - 1 \notin Untyped
      BY <1>2, <2>1, <2>4
    <3> HIDE DEF V, N
    <3> QED BY <2>4, <3>1
  <2> HIDE DEF longer, starts, V, N
  <2> QED BY <1>4, <1>12, <2>1, <2>3, <2>4, <2>5
<1>14. N \in 0 .. N
  BY <1>2
<1> HIDE DEF N, V
<1> QED BY <1>11, <1>13, <1>14 DEF V

LEMMA UnitsTyped ==
  ASSUME FileInv
  PROVE  Units \in UnitLists
BY StepsTyped, TurnsTyped DEF Units

\* What is new of the units: the rest, after those that are counted.
LEMMA NewUnitsAre ==
  ASSUME NEW all \in UnitLists, saved.synced \in Nat
  PROVE  /\ NewUnits(all) \in UnitLists
         /\ saved.synced <= Len(all) =>
              /\ Len(NewUnits(all)) = Len(all) - saved.synced
              /\ \A i \in 1 .. Len(all) - saved.synced : NewUnits(all)[i] = all[saved.synced + i]
<1>1. PICK m \in Nat : m = saved.synced
  OBVIOUS
<1>2. NewUnits(all) = SubSeq(all, m + 1, Len(all))
  BY <1>1 DEF NewUnits
<1>3. Len(all) \in Nat /\ m + 1 \in Nat /\ m + 1 >= 1
  BY DEF UnitLists
<1>4. all \in Seq(Seq(Nat))
  BY DEF UnitLists
<1> DEFINE new == SubSeq(all, m + 1, Len(all))
<1>5. /\ new \in Seq(Seq(Nat))
      /\ Len(new) = IF m + 1 <= Len(all) THEN Len(all) - (m + 1) + 1 ELSE 0
      /\ \A i \in 1 .. Len(all) - (m + 1) + 1 : new[i] = all[(m + 1) + i - 1]
  <2>1. \A i \in m + 1 .. Len(all) : all[i] \in Seq(Nat)
    BY <1>3, <1>4
  <2>2. m + 1 \in Int /\ Len(all) \in Int
    BY <1>3
  <2> QED BY <2>1, <2>2, SubSeqProperties
<1> HIDE DEF new
<1>6. m <= Len(all) => /\ Len(new) = Len(all) - m
                       /\ \A i \in 1 .. Len(all) - m : new[i] = all[m + i]
  <2>1. \A i \in 1 .. Len(all) - m : (m + 1) + i - 1 = m + i
    BY <1>3
  <2>2. Len(all) - (m + 1) + 1 = Len(all) - m
    BY <1>3
  <2>3. m <= Len(all) => (m + 1 <= Len(all) \/ Len(all) - m = 0)
    BY <1>3
  <2>4. \A i \in 1 .. Len(all) - m : new[i] = all[m + i]
    BY <1>5, <2>1, <2>2
  <2>5. m <= Len(all) => Len(new) = Len(all) - m
    BY <1>3, <1>5, <2>2, <2>3
  <2> QED BY <2>4, <2>5
<1> QED BY <1>1, <1>2, <1>5, <1>6 DEF UnitLists, new

CountedInv == CountedTypeOK /\ (~disturbed => CountInv)

\* Units that are a part of all units, and of the same length as another part.
LEMMA CountedStepKeeps ==
  ASSUME FileInv, CountedInv, CountedStep
  PROVE  CountedInv'
<1>1. /\ stored \in UnitLists /\ saved.synced \in Nat /\ saved.entries \in UnitLists
      /\ run.all \in UnitLists /\ run.todo \in UnitLists /\ turns \in BOOLEAN /\ disturbed \in BOOLEAN
      /\ saved \in [synced : Nat, entries : UnitLists]
      /\ run \in [pc : {"idle", "appending"}, all : UnitLists, todo : UnitLists]
  BY DEF CountedInv, CountedTypeOK
<1>2. \A u \in UnitLists : u \in Seq(Seq(Nat)) /\ Len(u) \in Nat /\ DOMAIN u = 1 .. Len(u)
  BY DEF UnitLists
<1>3. <<>> \in UnitLists /\ Len(<<>>) = 0
  BY EmptySeq DEF UnitLists
<1>4. CASE ReadTranscript
  <2>1. PICK all \in UnitLists : all = Units
    BY UnitsTyped
  <2>2. PICK new : new = NewUnits(all)
    OBVIOUS
  <2>3. /\ run.pc = "idle" /\ run' = [pc |-> "appending", all |-> all, todo |-> new]
        /\ disturbed' = (disturbed \/ ~IsPrefix(stored, all))
        /\ turns' = turns /\ stored' = stored /\ saved' = saved
    BY <1>4, <2>1, <2>2 DEF ReadTranscript
  <2>4. /\ new \in UnitLists
        /\ saved.synced <= Len(all) =>
             /\ Len(new) = Len(all) - saved.synced
             /\ \A i \in 1 .. Len(all) - saved.synced : new[i] = all[saved.synced + i]
    BY <1>1, <2>2, NewUnitsAre
  <2>5. CountedTypeOK'
    BY <1>1, <2>1, <2>3, <2>4 DEF CountedTypeOK
  <2>6. ASSUME ~disturbed' PROVE CountInv'
    <3>1. CountInv /\ IsPrefix(stored, all)
      BY <2>3, <2>6 DEF CountedInv
    <3>2. Len(stored) = saved.synced /\ saved.entries = stored
      BY <2>3, <3>1 DEF CountInv
    <3>3. Len(stored) <= Len(all) /\ SubSeq(stored, 1, Len(stored)) = SubSeq(all, 1, Len(stored))
      BY <3>1 DEF IsPrefix
    <3>4. \A i \in 1 .. Len(stored) : stored[i] = all[i]
      <4>1. stored \in Seq(Seq(Nat)) /\ all \in Seq(Seq(Nat)) /\ Len(stored) \in Nat /\ Len(all) \in Nat
        BY <1>1, <1>2, <2>1
      <4> QED BY <3>3, <4>1
    <3>5. Starts(stored, all)
      BY <3>3, <3>4 DEF Starts
    <3>6. Joins(stored, new, all)
      <4>1. Len(stored) \in Nat /\ Len(all) \in Nat /\ Len(new) = Len(all) - Len(stored)
        BY <1>1, <1>2, <2>1, <2>4, <3>2, <3>3
      <4>2. Len(all) = Len(stored) + Len(new)
        BY <4>1
      <4>3. \A i \in 1 .. Len(new) : new[i] = all[Len(stored) + i]
        BY <2>4, <3>2, <3>3, <4>1
      <4> QED BY <3>4, <4>2, <4>3 DEF Joins
    <3> QED BY <2>3, <3>2, <3>5, <3>6 DEF CountInv
  <2> QED BY <2>5, <2>6 DEF CountedInv
<1>5. CASE CommitUnit
  <2>1. /\ run.pc = "appending" /\ run.todo # <<>> /\ stored' = Append(stored, Head(run.todo))
        /\ run' = [run EXCEPT !.todo = Tail(run.todo)]
        /\ turns' = turns /\ saved' = saved /\ disturbed' = disturbed
    BY <1>5 DEF CommitUnit
  <2>2. PICK todo : todo = run.todo
    OBVIOUS
  <2>3. PICK all : all = run.all
    OBVIOUS
  <2>4. /\ todo \in Seq(Seq(Nat)) /\ todo # <<>> /\ Head(todo) = todo[1] /\ Head(todo) \in Seq(Nat)
        /\ Tail(todo) \in Seq(Seq(Nat)) /\ Len(todo) \in Nat /\ Len(todo) # 0
        /\ Len(Tail(todo)) = Len(todo) - 1
        /\ \A i \in 1 .. Len(todo) - 1 : Tail(todo)[i] = todo[i + 1]
    BY <1>1, <1>2, <2>1, <2>2
  <2>5. /\ stored' \in Seq(Seq(Nat)) /\ Len(stored') = Len(stored) + 1
        /\ \A i \in 1 .. Len(stored) : stored'[i] = stored[i]
        /\ stored'[Len(stored) + 1] = todo[1]
    BY <1>1, <1>2, <2>1, <2>2, <2>4
  <2>6. run'.pc = "appending" /\ run'.all = all /\ run'.todo = Tail(todo)
    BY <1>1, <2>1, <2>2, <2>3
  <2>7. run' \in [pc : {"idle", "appending"}, all : UnitLists, todo : UnitLists]
    BY <1>1, <2>1, <2>2, <2>4 DEF UnitLists
  <2>8. CountedTypeOK'
    BY <1>1, <2>1, <2>5, <2>7 DEF CountedTypeOK, UnitLists
  <2>9. ASSUME ~disturbed' PROVE CountInv'
    <3>1. CountInv
      BY <2>1, <2>9 DEF CountedInv
    <3>2. Starts(saved.entries, all) /\ Joins(stored, todo, all) /\ Len(saved.entries) = saved.synced
      BY <2>1, <2>2, <2>3, <3>1 DEF CountInv
    <3>3. Joins(stored', Tail(todo), all)
      <4> DEFINE rest == Tail(todo)
                 done == stored'
      <4>0. Len(stored) \in Nat
        BY <1>1, <1>2
      <4>1. Len(all) = Len(done) + Len(rest)
        BY <2>4, <2>5, <3>2, <4>0 DEF Joins
      <4>2. \A i \in 1 .. Len(done) : done[i] = all[i]
        <5> SUFFICES ASSUME NEW i \in 1 .. Len(done) PROVE done[i] = all[i]
          OBVIOUS
        <5>1. CASE i \in 1 .. Len(stored)
          BY <2>5, <3>2, <5>1 DEF Joins
        <5>2. CASE i \notin 1 .. Len(stored)
          <6>1. i = Len(stored) + 1 /\ 1 \in 1 .. Len(todo)
            BY <2>4, <2>5, <4>0, <5>2
          <6>2. todo[1] = all[Len(stored) + 1]
            BY <3>2, <6>1 DEF Joins
          <6> QED BY <2>5, <6>1, <6>2
        <5> QED BY <5>1, <5>2
      <4>3. \A i \in 1 .. Len(rest) : rest[i] = all[Len(done) + i]
        <5> SUFFICES ASSUME NEW i \in 1 .. Len(rest) PROVE rest[i] = all[Len(done) + i]
          OBVIOUS
        <5>1. i + 1 \in 1 .. Len(todo) /\ rest[i] = todo[i + 1]
          BY <2>4
        <5>2. todo[i + 1] = all[Len(stored) + (i + 1)]
          BY <3>2, <5>1 DEF Joins
        <5>3. Len(stored) + (i + 1) = Len(done) + i
          BY <2>4, <2>5, <4>0
        <5> QED BY <5>1, <5>2, <5>3
      <4> QED BY <4>1, <4>2, <4>3 DEF Joins
    <3> QED BY <2>1, <2>6, <3>2, <3>3 DEF CountInv
  <2> QED BY <2>8, <2>9 DEF CountedInv
<1>6. CASE SaveState
  <2>1. PICK all \in UnitLists : all = run.all
    BY <1>1
  <2>2. PICK new : new = NewUnits(all)
    OBVIOUS
  <2>3. /\ run.pc = "appending" /\ run.todo = <<>>
        /\ saved' = [synced |-> Len(all), entries |-> saved.entries \o new]
        /\ run' = NoRun /\ turns' = turns /\ stored' = stored /\ disturbed' = disturbed
    BY <1>6, <2>1, <2>2 DEF SaveState, StateAfter
  <2>4. /\ new \in UnitLists
        /\ saved.synced <= Len(all) =>
             /\ Len(new) = Len(all) - saved.synced
             /\ \A i \in 1 .. Len(all) - saved.synced : new[i] = all[saved.synced + i]
    BY <1>1, <2>2, NewUnitsAre
  <2>5. PICK old \in UnitLists : old = saved.entries
    BY <1>1
  <2>6. /\ old \o new \in Seq(Seq(Nat)) /\ Len(old \o new) = Len(old) + Len(new)
        /\ \A i \in 1 .. Len(old) + Len(new) :
             (old \o new)[i] = IF i <= Len(old) THEN old[i] ELSE new[i - Len(old)]
    BY <1>2, <2>4, <2>5, ConcatProperties
  <2>7. saved' \in [synced : Nat, entries : UnitLists]
    BY <1>2, <2>1, <2>3, <2>5, <2>6 DEF UnitLists
  <2>8. CountedTypeOK'
    BY <1>1, <1>3, <2>3, <2>7 DEF CountedTypeOK, NoRun
  <2>9. ASSUME ~disturbed' PROVE CountInv'
    <3>1. CountInv
      BY <2>3, <2>9 DEF CountedInv
    <3>2. Starts(old, all) /\ Joins(stored, <<>>, all) /\ Len(old) = saved.synced
      BY <2>1, <2>3, <2>5, <3>1 DEF CountInv
    <3>3. Len(old) \in Nat /\ Len(all) \in Nat /\ Len(new) \in Nat /\ Len(stored) \in Nat
      BY <1>1, <1>2, <2>1, <2>4, <2>5
    <3>4. Len(new) = Len(all) - Len(old) /\ \A i \in 1 .. Len(all) - Len(old) : new[i] = all[Len(old) + i]
      BY <2>4, <3>2 DEF Starts
    <3>5. Len(old \o new) = Len(all)
      BY <2>6, <3>3, <3>4
    <3>6. \A i \in 1 .. Len(all) : (old \o new)[i] = all[i]
      <4> SUFFICES ASSUME NEW i \in 1 .. Len(all) PROVE (old \o new)[i] = all[i]
        OBVIOUS
      <4>1. i \in 1 .. Len(old) + Len(new)
        BY <3>3, <3>4
      <4>2. CASE i <= Len(old)
        <5>1. i \in 1 .. Len(old)
          BY <3>3, <4>2
        <5> QED BY <2>6, <3>2, <4>1, <4>2, <5>1 DEF Starts
      <4>3. CASE ~(i <= Len(old))
        <5>1. i - Len(old) \in 1 .. Len(all) - Len(old) /\ Len(old) + (i - Len(old)) = i
          BY <3>3, <4>3
        <5>2. new[i - Len(old)] = all[i]
          BY <3>4, <5>1
        <5> QED BY <2>6, <4>1, <4>3, <5>2
      <4> QED BY <4>2, <4>3
    <3>7. Len(stored) = Len(all) /\ \A i \in 1 .. Len(stored) : stored[i] = all[i]
      BY <1>3, <3>2, <3>3 DEF Joins
    <3>8. old \o new = stored
      <4>1. stored \in Seq(Seq(Nat))
        BY <1>1, <1>2
      <4>2. \A i \in 1 .. Len(stored) : (old \o new)[i] = stored[i]
        BY <3>6, <3>7
      <4> QED BY <2>6, <3>5, <3>7, <4>1, <4>2, SeqEqual
    <3>9. run'.pc = "idle"
      BY <2>3 DEF NoRun
    <3> QED BY <2>3, <2>5, <3>5, <3>8, <3>9 DEF CountInv
  <2> QED BY <2>8, <2>9 DEF CountedInv
<1>7. CASE CountedFails
  <2>1. /\ run.pc = "appending" /\ disturbed' = (disturbed \/ Len(stored) # saved.synced)
        /\ run' = NoRun /\ turns' = turns /\ stored' = stored /\ saved' = saved
    BY <1>7 DEF CountedFails
  <2>2. CountedTypeOK'
    BY <1>1, <1>3, <2>1 DEF CountedTypeOK, NoRun
  <2>3. ASSUME ~disturbed' PROVE CountInv'
    <3>1. CountInv /\ Len(stored) = saved.synced
      BY <2>1, <2>3 DEF CountedInv
    <3>2. Starts(saved.entries, run.all) /\ Joins(stored, run.todo, run.all)
          /\ Len(saved.entries) = saved.synced
      BY <2>1, <3>1 DEF CountInv
    <3>3. saved.entries = stored
      <4>1. saved.entries \in Seq(Seq(Nat)) /\ stored \in Seq(Seq(Nat))
        BY <1>1, <1>2
      <4>2. \A i \in 1 .. Len(stored) : saved.entries[i] = stored[i]
        BY <3>1, <3>2 DEF Starts, Joins
      <4> QED BY <3>1, <3>2, <4>1, <4>2, SeqEqual
    <3>4. run'.pc = "idle"
      BY <2>1 DEF NoRun
    <3> QED BY <2>1, <3>2, <3>3, <3>4 DEF CountInv
  <2> QED BY <2>2, <2>3 DEF CountedInv
<1> QED BY <1>4, <1>5, <1>6, <1>7 DEF CountedStep

\* What the server makes of one batch.
UnitsFact(units, managed, batch, kept, texts, times) ==
  /\ batch.refused <=> <<2, 1>> \in Range(times)
  /\ kept.timed => Len(kept.texts) = Len(units) /\ kept.times = times
  /\ ~batch.refused /\ ~kept.timed => kept.times = <<>>
  /\ managed \/ kept.timed =>
       \A i \in DOMAIN kept.texts : kept.texts[i] = Min({texts[i], MaxUnitChars})
  /\ ~batch.refused /\ ~managed /\ ~kept.timed => kept.texts = NotBlank(texts)
  /\ batch.timed => NormalizeStrings(texts, times, TRUE) = batch

LEMMA UnitsKept == UnitsAreKept
<1> SUFFICES ASSUME NEW units \in SomeUnits, NEW managed \in BOOLEAN
             PROVE  UnitsFact(units, managed, NormalizeUnits(units),
                              ProcessUnits(NormalizeUnits(units), managed),
                              [i \in DOMAIN units |-> units[i].text],
                              [i \in DOMAIN units |-> units[i].time])
  BY DEF UnitsAreKept, UnitsFact
<1>0. PICK n \in 0 .. 2 : units \in [1 .. n -> [text : 0 .. MaxUnitChars + 1,
                                               time : {NoTime, <<1, 1>>, <<2, 1>>}]]
  BY DEF SomeUnits
<1> DEFINE batch == NormalizeUnits(units)
           kept  == ProcessUnits(batch, managed)
           texts == [i \in DOMAIN units |-> units[i].text]
           times == [i \in DOMAIN units |-> units[i].time]
           wrong == \E i \in DOMAIN units : ~Parsed(units[i].time)
           timed == \E i \in DOMAIN units : units[i].time # NoTime
<1> SUFFICES UnitsFact(units, managed, batch, kept, texts, times)
  OBVIOUS
<1>1. DOMAIN units = 1 .. n /\ n \in Nat /\ Len(units) = n
  <2>1. n \in Nat /\ DOMAIN units = 1 .. n
    BY <1>0
  <2> QED BY <2>1
<1>2. \A i \in 1 .. n : units[i].time \in {NoTime, <<1, 1>>, <<2, 1>>}
  BY <1>0
<1>3. Parsed(NoTime) /\ Parsed(<<1, 1>>) /\ ~Parsed(<<2, 1>>)
  BY DEF Parsed, NoTime
<1>4. wrong <=> <<2, 1>> \in Range(times)
  <2>1. <<2, 1>> \in Range(times) <=> \E i \in 1 .. n : units[i].time = <<2, 1>>
    BY <1>1 DEF Range
  <2>2. wrong <=> \E i \in 1 .. n : units[i].time = <<2, 1>>
    BY <1>1, <1>2, <1>3
  <2> QED BY <2>1, <2>2
<1>5. CASE wrong
  <2>1. batch = Refusal
    BY <1>5 DEF NormalizeUnits
  <2>2. batch.refused /\ ~batch.timed
    <3> HIDE DEF batch
    <3> QED BY <2>1 DEF Refusal
  <2>3. ~kept.timed /\ kept.times = <<>>
    <3> HIDE DEF batch
    <3> QED BY <2>1 DEF ProcessUnits, Refusal
  <2>4. managed => kept.texts = <<>>
    <3> HIDE DEF batch
    <3> QED BY <2>1 DEF ProcessUnits, Refusal
  <2>5. managed => DOMAIN kept.texts = {}
    <3> HIDE DEF kept
    <3> QED BY <2>4
  <2> HIDE DEF kept, batch, texts, times, wrong
  <2>6. managed \/ kept.timed =>
          \A i \in DOMAIN kept.texts : kept.texts[i] = Min({texts[i], MaxUnitChars})
    BY <2>3, <2>5
  <2> QED BY <1>4, <1>5, <2>2, <2>3, <2>6 DEF UnitsFact
<1>6. CASE ~wrong
  <2>1. batch = Batch(texts, IF timed THEN times ELSE <<>>, timed)
    BY <1>6 DEF NormalizeUnits
  <2> HIDE DEF batch
  <2>2. /\ batch.texts = texts /\ batch.times = (IF timed THEN times ELSE <<>>)
        /\ (batch.timed <=> timed) /\ ~batch.refused
    <3> HIDE DEF texts, times, timed
    <3> QED BY <2>1 DEF Batch
  <2>3. Len(texts) = n /\ DOMAIN texts = 1 .. n /\ Len(times) = n /\ DOMAIN times = 1 .. n
    BY <1>1
  <2> DEFINE cut == [i \in DOMAIN texts |-> Min({texts[i], MaxUnitChars})]
  <2>4. kept = IF managed \/ timed THEN [batch EXCEPT !.texts = cut]
               ELSE [batch EXCEPT !.texts = NotBlank(texts)]
    <3> HIDE DEF texts, times, timed
    <3> QED BY <2>2 DEF ProcessUnits
  <2> HIDE DEF kept, cut
  <2>5. kept.times = batch.times /\ kept.timed = batch.timed
        /\ kept.texts = IF managed \/ timed THEN cut ELSE NotBlank(texts)
    <3> HIDE DEF texts, times, timed
    <3> QED BY <2>1, <2>4 DEF Batch
  <2>6. DOMAIN cut = 1 .. n /\ Len(cut) = n
    <3> HIDE DEF texts
    <3> QED BY <1>1, <2>3 DEF cut
  <2>7. kept.timed => Len(kept.texts) = Len(units) /\ kept.times = times
    BY <1>1, <2>2, <2>5, <2>6
  <2>8. managed \/ kept.timed =>
          \A i \in DOMAIN kept.texts : kept.texts[i] = Min({texts[i], MaxUnitChars})
    <3> HIDE DEF texts, times, timed
    <3> QED BY <2>2, <2>5 DEF cut
  <2>9. batch.timed => NormalizeStrings(texts, times, TRUE) = batch
    <3> SUFFICES ASSUME timed PROVE NormalizeStrings(texts, times, TRUE) = batch
      BY <2>2
    <3>1. texts # <<>>
      <4>1. n # 0
        BY <1>1
      <4> HIDE DEF texts
      <4> QED BY <2>3, <4>1
    <3>2. \A i \in DOMAIN times : Parsed(times[i])
      BY <1>6
    <3>3. batch = Batch(texts, times, TRUE)
      <4> HIDE DEF texts, times
      <4> QED BY <2>1
    <3> HIDE DEF texts, times
    <3> QED BY <2>3, <3>1, <3>2, <3>3 DEF NormalizeStrings
  <2> HIDE DEF texts, times, timed, wrong
  <2> QED BY <1>4, <1>6, <2>2, <2>5, <2>7, <2>8, <2>9 DEF UnitsFact
<1> QED BY <1>5, <1>6

-----------------------------------------------------------------------------
(* The theorems *)

\* No adapter that counts fires a hook or writes one.
Counting == Hooks = {} /\ \A p \in Syncs : sync[p].pc = "idle"

AdaptersInv ==
  /\ AdaptersTypeOK /\ FileInv /\ CountedInv
  /\ stateless /\ spoiled = {} => SyncInv
  /\ ~stateless => Counting

LEMMA AdaptersStart == AdaptersInit => AdaptersInv
<1> SUFFICES ASSUME AdaptersInit PROVE AdaptersInv
  OBVIOUS
<1>1. /\ file = <<>> /\ doc = <<>> /\ lock = Unlocked /\ sync = [p \in Syncs |-> Idle]
      /\ faults = 0 /\ spoiled = {} /\ stateless \in BOOLEAN
      /\ turns \in BOOLEAN /\ stored = <<>> /\ saved = NoState /\ run = NoRun /\ disturbed = FALSE
  BY DEF AdaptersInit, TranscriptInit, SyncInit, CountedInit
<1>2. Len(file) = 0 /\ DOMAIN file = {} /\ file \in Seq(FileRecords)
  BY <1>1, EmptySeq
<1>3. MaxRecords \in Nat /\ MaxFaults \in Nat /\ NoCut \in Nat
  BY TranscriptConstants, SyncConstants DEF TranscriptConstants, SyncConstants, NoCut
<1>4. FileInv
  BY <1>2, <1>3 DEF FileInv
<1>5. SyncTypeOK
  <2>1. <<>> \in Seq(DOMAIN file) /\ None \in 0 .. Len(file) /\ NoCut \in 0 .. NoCut
    BY <1>2, <1>3, EmptySeq DEF None
  <2>2. faults \in 0 .. MaxFaults
    BY <1>1, <1>3
  <2> QED BY <1>1, <2>1, <2>2 DEF SyncTypeOK, Idle
<1>6. CountedInv
  <2>1. <<>> \in UnitLists
    BY EmptySeq DEF UnitLists
  <2> QED BY <1>1, <2>1 DEF CountedInv, CountedTypeOK, CountInv, NoState, NoRun
<1>7. \A p \in Syncs : sync[p] = Idle /\ sync[p].pc = "idle"
  BY <1>1 DEF Idle
<1>8. SyncInv
  <2>1. ForksApart /\ NoReturn
    BY <1>2 DEF ForksApart, NoReturn
  <2>2. Alone
    BY <1>7 DEF Alone
  <2>3. DocIsABranch
    <3>1. Latest = None /\ StepsOn(None) = {}
      BY <1>1, <1>4, OnIs DEF Latest, StepsOn
    <3> QED BY <1>1, <3>1, EmptyRises DEF DocIsABranch
  <2>4. TiesInHand /\ \A p \in Syncs : Stage(p)
    BY <1>1, <1>7 DEF TiesInHand, Stage
  <2> QED BY <2>1, <2>2, <2>3, <2>4 DEF SyncInv
<1>9. Counting
  BY <1>2, <1>7 DEF Counting, Hooks
<1> QED BY <1>1, <1>4, <1>5, <1>6, <1>8, <1>9 DEF AdaptersInv, AdaptersTypeOK

LEMMA AdaptersStep == AdaptersInv /\ [AdaptersNext]_adapterVars => AdaptersInv'
<1> SUFFICES ASSUME AdaptersInv, [AdaptersNext]_adapterVars PROVE AdaptersInv'
  OBVIOUS
<1>1. SyncTypeOK /\ FileInv /\ CountedInv /\ stateless \in BOOLEAN
  BY DEF AdaptersInv, AdaptersTypeOK
<1>2. UNCHANGED countedVars => CountedInv'
  BY <1>1 DEF countedVars, CountedInv, CountedTypeOK, CountInv, UnitLists, Starts, Joins
<1>3. CASE stateless /\ EditorWrites /\ UNCHANGED <<stateless, countedVars>>
  <2>1. FileInv' /\ SyncTypeOK' /\ (spoiled' = {} => spoiled = {} /\ (SyncInv => SyncInv'))
    BY <1>1, <1>3, EditorKeeps
  <2> QED BY <1>1, <1>2, <1>3, <2>1 DEF AdaptersInv, AdaptersTypeOK
<1>4. CASE \E p \in Syncs : stateless /\ SyncStep(p) /\ UNCHANGED <<stateless, file, branches, ties, countedVars>>
  <2>1. SyncTypeOK' /\ (spoiled' = {} => spoiled = {} /\ (SyncInv => SyncInv'))
    BY <1>1, <1>4, SyncStepKeeps
  <2>2. FileInv'
    BY <1>1, <1>4, SameFile
  <2> QED BY <1>1, <1>2, <1>4, <2>1, <2>2 DEF AdaptersInv, AdaptersTypeOK
<1>5. CASE ~stateless /\ TranscriptGrows /\ UNCHANGED <<stateless, syncVars>>
  <2>1. Counting
    BY <1>5 DEF AdaptersInv
  <2>2. FileInv' /\ SyncTypeOK' /\ Hooks' = {}
    BY <1>1, <1>5, <2>1, GrowsKeeps DEF Counting
  <2>3. UNCHANGED countedVars
    BY <1>5 DEF TranscriptGrows
  <2>4. Counting'
    BY <1>5, <2>1, <2>2 DEF Counting, syncVars
  <2> QED BY <1>1, <1>2, <1>5, <2>2, <2>3, <2>4 DEF AdaptersInv, AdaptersTypeOK
<1>6. CASE ~stateless /\ CountedStep /\ UNCHANGED <<stateless, file, branches, ties, syncVars>>
  <2>1. CountedInv'
    BY <1>1, <1>6, CountedStepKeeps
  <2>2. FileInv' /\ SyncTypeOK'
    <3>1. FileInv'
      BY <1>1, <1>6, SameFile
    <3>2. SyncTypeOK'
      BY <1>1, <1>6 DEF SyncTypeOK, syncVars, NoCut, Unlocked, Dead
    <3> QED BY <3>1, <3>2
  <2>3. Counting'
    <3>1. Counting
      BY <1>6 DEF AdaptersInv
    <3> QED BY <1>6, <3>1 DEF Counting, Hooks, Kind, syncVars
  <2> QED BY <1>1, <1>6, <2>1, <2>2, <2>3 DEF AdaptersInv, AdaptersTypeOK
<1>7. CASE UNCHANGED adapterVars
  <2>1. UNCHANGED <<stateless, file, branches, ties, syncVars, countedVars>>
    BY <1>7 DEF adapterVars
  <2>2. FileInv'
    BY <1>1, <2>1, SameFile
  <2>3. SyncTypeOK'
    BY <1>1, <2>1 DEF SyncTypeOK, syncVars, NoCut, Unlocked, Dead
  <2>4. Counting => Counting'
    BY <2>1 DEF Counting, Hooks, Kind, syncVars
  <2>5. SyncInv => SyncInv'
    <3> SUFFICES ASSUME SyncInv PROVE SyncInv'
      OBVIOUS
    <3>1. WritesWell
      <4>1. Extends
        BY <1>1, <2>1, FileLength DEF Extends, FileInv
      <4>2. ForksApart' /\ NoReturn'
        BY <1>1, <2>1, SameFile DEF SyncInv
      <4>3. Later
        BY <2>1 DEF Later
      <4> QED BY <2>2, <4>1, <4>2, <4>3 DEF WritesWell
    <3> QED BY <1>1, <2>1, <3>1, EditorKeepsSync DEF syncVars
  <2>6. spoiled' = spoiled
    BY <2>1 DEF syncVars
  <2> QED BY <1>1, <1>2, <2>1, <2>2, <2>3, <2>4, <2>5, <2>6 DEF AdaptersInv, AdaptersTypeOK
<1> QED BY <1>3, <1>4, <1>5, <1>6, <1>7 DEF AdaptersNext

\* A sync that ends with no step left has made the document the branch.
LEMMA FinishedIsExact == AdaptersInv => ExactAfterSync
<1> SUFFICES ASSUME AdaptersInv, NEW p \in Syncs, Finished(p), spoiled = {},
                    Kind(sync[p].head) # "hook",
                    sync[p].full \/ Range(doc) \subseteq Range(BranchSteps(sync[p].head))
             PROVE  doc = BranchSteps(sync[p].head)
  BY DEF ExactAfterSync
<1>1. FileInv /\ SyncTypeOK /\ sync[p].pc = "appending" /\ sync[p].todo = <<>>
  BY DEF AdaptersInv, AdaptersTypeOK, Finished
<1>2. SyncInv
  BY <1>1 DEF AdaptersInv, Counting
<1>3. PICK head : head = sync[p].head
  OBVIOUS
<1>4. head \in 0 .. Len(file)
  BY <1>1, <1>3, Types DEF SyncRecords
<1>5. Rising(BranchSteps(head)) /\ Range(BranchSteps(head)) = StepsOn(head)
  BY <1>1, <1>4, BranchStepsIs
<1>6. Stage(p) /\ Rising(doc)
  BY <1>2 DEF SyncInv, DocIsABranch
<1>7. Makes(Range(doc), <<>>, head)
  BY <1>1, <1>3, <1>5, <1>6 DEF Stage
<1>8. Range(doc) = StepsOn(head)
  BY <1>7, EmptyRises DEF Makes
<1> QED BY <1>3, <1>5, <1>6, <1>8, RisingEqual

LEMMA CountedIsOnce == AdaptersInv => CountedOnce
<1> SUFFICES ASSUME AdaptersInv, ~disturbed
             PROVE  /\ run.pc = "appending" => IsPrefix(stored, run.all)
                    /\ run.pc = "idle" => saved.entries = stored
  BY UnitsKept DEF CountedOnce
<1>1. CountInv /\ stored \in Seq(Seq(Nat)) /\ run.all \in Seq(Seq(Nat)) /\ run.todo \in Seq(Seq(Nat))
  BY DEF AdaptersInv, CountedInv, CountedTypeOK, UnitLists
<1>2. ASSUME run.pc = "appending" PROVE IsPrefix(stored, run.all)
  <2>1. Joins(stored, run.todo, run.all)
    BY <1>1, <1>2 DEF CountInv
  <2>2. PICK done \in Seq(Seq(Nat)) : done = stored
    BY <1>1
  <2>3. PICK all \in Seq(Seq(Nat)) : all = run.all
    BY <1>1
  <2>4. Len(done) \in Nat /\ Len(all) \in Nat /\ Len(run.todo) \in Nat
    BY <1>1
  <2>5. Len(done) <= Len(all) /\ \A i \in 1 .. Len(done) : done[i] = all[i]
    BY <2>1, <2>2, <2>3, <2>4 DEF Joins
  <2>6. SubSeq(done, 1, Len(done)) = SubSeq(all, 1, Len(done))
    BY <2>4, <2>5
  <2> QED BY <2>2, <2>3, <2>5, <2>6 DEF IsPrefix
<1> QED BY <1>1, <1>2 DEF CountInv

LEMMA AdaptersAlways == AdaptersSpec => []AdaptersInv
<1> QED BY AdaptersStart, AdaptersStep, PTL DEF AdaptersSpec

(* Type correctness of the adapter that keeps no state: whatever the       *)
(* editor writes and however syncs end, the document, the plans and the    *)
(* heads name records of the transcript (execute_sync, sync-transcript.sh).*)
THEOREM AdaptersAreTyped == AdaptersSpec => []AdaptersTypeOK
<1>1. AdaptersInv => AdaptersTypeOK
  BY DEF AdaptersInv
<1> QED BY <1>1, AdaptersAlways, PTL

(* A sync of the Claude Code adapter (execute_sync) that ends has made the *)
(* document the steps of the branch of the head it read: a full sync       *)
(* always, an append-only one where the branch goes on from the document.  *)
(* This holds for transcripts of any length and any number of rewinds,     *)
(* compactions, hook records, failures and kills; what it excepts is what  *)
(* the property names, `spoiled' and a head that is a hook.                *)
THEOREM SyncsAreExact == AdaptersSpec => []ExactAfterSync
<1> QED BY FinishedIsExact, AdaptersAlways, PTL

(* The adapters that count (sync_transcript of openclaw and clawdbot) have *)
(* at any time sent a prefix of the units they read, each once and in      *)
(* order, and between syncs their state file lists exactly what the        *)
(* document holds; unless the branch changed under the count or a sync     *)
(* failed between its first commit and its save.  And a batch comes to     *)
(* what it says (_normalize_units_input, _process_units_for_batch).        *)
THEOREM UnitsAreSentOnce == AdaptersSpec => []CountedOnce
<1> QED BY CountedIsOnce, AdaptersAlways, PTL
=============================================================================
