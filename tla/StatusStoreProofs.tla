--------------------------- MODULE StatusStoreProofs ---------------------------
(***************************************************************************)
(* Theorems about StatusStore, for any number of servers, uploads, files   *)
(* and crashes, and for records that expire at any time.                   *)
(***************************************************************************)
EXTENDS StatusStore, TLAPS

-----------------------------------------------------------------------------
(* The inductive invariant.                                                *)

\* An upload lives on a server that listens; one that never began has no record.
LiveIsServed ==
  /\ \A r \in alive : server[Home[r]] = "up"
  /\ \A r \in Requests \ (alive \cup over) : redis[r] = Missing

\* While a server resets, all that is alive has been met.
ResetsMeet == \A p \in Servers : server[p] = "resetting" => alive \subseteq met

\* A record that is there is the last one.
LastIsThere == \A r \in Requests : redis[r] # Missing => last[r] = redis[r]

\* The copy an upload holds never says "failed", and without a meeting it is made of what can be read.
HeldIsFresh ==
  \A r \in Requests : held[r] # NoCopy =>
    /\ r \in alive
    /\ ~IsFailed(held[r])
    /\ r \in met \/ \E old \in Atomic!Readable(r) : held[r] \in Updates(Fetched(old))

\* The copy of a reset is about an upload that began; without a meeting it is gone, and the copy fresh.
CopyIsFresh ==
  \A p \in Servers : copy[p] # NoCopy =>
    /\ server[p] = "resetting"
    /\ copy[p].key \in alive \cup over
    /\ \/ copy[p].key \in met
       \/ /\ copy[p].key \notin alive
          /\ copy[p].rec = ResetRecord(last[copy[p].key])

Inv ==
  /\ TypeOK
  /\ LiveIsServed
  /\ ResetsMeet
  /\ LastIsThere
  /\ HeldIsFresh
  /\ CopyIsFresh
  /\ OnlyStartsFail

-----------------------------------------------------------------------------
(* Records.                                                                *)

LEMMA MissingIsRecord == Missing \in Record
  BY DEF Missing, NoItems, Record, Processes, ItemStates

LEMMA ResetIsRecord == ASSUME NEW rec \in Record PROVE ResetRecord(rec) \in Record
  BY DEF ResetRecord, Record, Processes

LEMMA ResetTwice == ASSUME NEW rec \in Record PROVE ResetRecord(ResetRecord(rec)) = ResetRecord(rec)
  BY DEF ResetRecord, Record, Processes

\* What the code makes of a record is a record, and never a failed one.
LEMMA UpdatesAreRecords ==
  ASSUME NEW rec \in Record, NEW new \in Updates(Fetched(rec))
  PROVE  new \in Record /\ ~IsFailed(new)
<1> DEFINE old == Fetched(rec)
<1>1. old \in Record
  BY DEF Fetched, Record, Processes
<1> HIDE DEF old
<1>2. ASSUME NEW listed \in SUBSET Files, new = ListFiles(old, listed) PROVE new \in Record /\ ~IsFailed(new)
  BY <1>2 DEF ListFiles, Record, Processes, ItemStates, IsFailed
<1>3. ASSUME NEW listed \in SUBSET Files, new = MarkUnsupported(old, listed)
      PROVE  new \in Record /\ ~IsFailed(new)
  BY <1>1, <1>3 DEF MarkUnsupported, Record, Processes, ItemStates, IsFailed
<1>4. ASSUME NEW f \in Files, new = MarkEmbedded(old, f) PROVE new \in Record /\ ~IsFailed(new)
  BY <1>1, <1>4 DEF MarkEmbedded, Record, Processes, ItemStates, IsFailed
<1>5. ASSUME new = MarkAllCompleted(old) PROVE new \in Record /\ ~IsFailed(new)
  BY <1>1, <1>5 DEF MarkAllCompleted, Record, Processes, ItemStates, IsFailed
<1>6. ASSUME new = MarkEmbeddingOver(old) \/ new = MarkCompleted(old) PROVE new \in Record /\ ~IsFailed(new)
  BY <1>1, <1>6 DEF MarkEmbeddingOver, MarkCompleted, Record, Processes, IsFailed
<1> QED BY <1>2, <1>3, <1>4, <1>5, <1>6 DEF Updates, old

-----------------------------------------------------------------------------
(* Type correctness.                                                       *)

LEMMA TypePreserved == TypeOK /\ [Next]_vars => TypeOK'
<1> SUFFICES ASSUME TypeOK, [Next]_vars PROVE TypeOK'
  OBVIOUS
<1> USE DEF TypeOK, recordVars, uploadVars, serverVars
<1>1. ASSUME NEW r \in Requests, Begin(r) \/ End(r) PROVE TypeOK'
  BY <1>1 DEF Begin, End, MeetOne
<1>2. ASSUME NEW r \in Requests, Get(r) PROVE TypeOK'
  BY <1>2, UpdatesAreRecords DEF Get
<1>3. ASSUME NEW r \in Requests, Set(r) PROVE TypeOK'
  <2>1. held[r] \in Record
    BY <1>3 DEF Set
  <2> QED BY <1>3, <2>1 DEF Set, Write
<1>4. ASSUME NEW p \in Servers, Start(p) \/ Serve(p) PROVE TypeOK'
  BY <1>4 DEF Start, Serve
<1>5. ASSUME NEW p \in Servers, ResetGet(p) PROVE TypeOK'
  BY <1>5, ResetIsRecord DEF ResetGet
<1>6. ASSUME NEW p \in Servers, ResetSet(p) PROVE TypeOK'
  <2>1. copy[p] \in [key : Requests, rec : Record]
    BY <1>6 DEF ResetSet
  <2> QED BY <1>6, <2>1 DEF ResetSet, Write
<1>7. ASSUME NEW p \in Servers, Crash(p) PROVE TypeOK'
  BY <1>7, BoundAssumption DEF Crash
<1>8. ASSUME NEW r \in Requests, Expire(r) PROVE TypeOK'
  BY <1>8, MissingIsRecord DEF Expire
<1>9. CASE UNCHANGED vars
  BY <1>9 DEF vars
<1> QED BY <1>1, <1>2, <1>3, <1>4, <1>5, <1>6, <1>7, <1>8, <1>9 DEF Next

(***************************************************************************)
(* Whatever GET and SET interleave, the store and every copy in between    *)
(* hold records, and SCANs yield keys of uploads.                          *)
(***************************************************************************)
THEOREM TypeCorrect == Spec => []TypeOK
<1>1. Init => TypeOK
  BY MissingIsRecord, BoundAssumption DEF Init, TypeOK
<1> QED BY <1>1, TypePreserved, PTL DEF Spec

-----------------------------------------------------------------------------
(* The invariant.                                                          *)

LEMMA InitInv == Init => Inv
<1> SUFFICES ASSUME Init PROVE Inv
  OBVIOUS
<1>1. TypeOK
  BY MissingIsRecord, BoundAssumption DEF Init, TypeOK
<1> QED BY <1>1 DEF Init, Inv, LiveIsServed, ResetsMeet, LastIsThere, HeldIsFresh, CopyIsFresh, OnlyStartsFail

LEMMA StepInv == Inv /\ [Next]_vars => Inv'
<1> SUFFICES ASSUME Inv, [Next]_vars PROVE Inv'
  OBVIOUS
<1> USE DEF Inv, recordVars, uploadVars, serverVars, Atomic!Readable
<1>0. TypeOK' /\ \A r \in Requests : Home[r] \in Servers
  BY TypePreserved, HomeAssumption
<1>m. Atomic!Missing = Missing /\ ResetRecord(Missing) = Missing /\ ~IsFailed(Missing)
  BY DEF Atomic!Missing, Missing, Atomic!NoItems, NoItems, ResetRecord, IsFailed
<1>1. ASSUME NEW r \in Requests, Begin(r) PROVE Inv'
  <2>1. redis[r] = Missing /\ server[Home[r]] = "up" /\ held[r] = NoCopy
    BY <1>0, <1>1 DEF Begin, LiveIsServed, HeldIsFresh
  <2>2. met \subseteq met'
    BY <1>1 DEF Begin, MeetOne
  <2>3. \A p \in Servers : server[p] = "resetting" => r \in met'
    BY <1>0, <1>1, <2>1 DEF Begin, MeetOne
  <2>4. ResetsMeet'
    BY <1>1, <2>2, <2>3 DEF Begin, ResetsMeet
  <2>5. \A p \in Servers : copy[p] # NoCopy => copy[p].key # r
    BY <1>1 DEF Begin, CopyIsFresh
  <2>6. CopyIsFresh'
    BY <1>1, <2>2, <2>5 DEF Begin, CopyIsFresh
  <2> QED BY <1>0, <1>m, <1>1, <2>1, <2>2, <2>4, <2>6
          DEF Begin, LiveIsServed, LastIsThere, HeldIsFresh, OnlyStartsFail
<1>2. ASSUME NEW r \in Requests, End(r) PROVE Inv'
  BY <1>0, <1>2 DEF End, TypeOK, LiveIsServed, ResetsMeet, LastIsThere, HeldIsFresh, CopyIsFresh, OnlyStartsFail
<1>3. ASSUME NEW r \in Requests, Get(r) PROVE Inv'
  <2>1. PICK rec \in Updates(Fetched(redis[r])) : held' = [held EXCEPT ![r] = rec]
    BY <1>3 DEF Get
  <2>2. ~IsFailed(rec)
    BY <2>1, UpdatesAreRecords DEF TypeOK
  <2>3. HeldIsFresh'
    BY <1>3, <2>1, <2>2 DEF Get, TypeOK, HeldIsFresh
  <2> QED BY <1>0, <1>3, <2>3 DEF Get, LiveIsServed, ResetsMeet, LastIsThere, CopyIsFresh, OnlyStartsFail
<1>4. ASSUME NEW r \in Requests, Set(r) PROVE Inv'
  <2>1. r \in alive /\ ~IsFailed(held[r])
    BY <1>4 DEF Set, HeldIsFresh
  <2>2. HeldIsFresh'
    BY <1>4, <1>m DEF Set, Write, TypeOK, HeldIsFresh
  <2>3. CopyIsFresh'
    BY <1>4, <2>1 DEF Set, Write, TypeOK, CopyIsFresh
  <2>4. LastIsThere'
    BY <1>4 DEF Set, Write, TypeOK, LastIsThere
  <2> QED BY <1>0, <1>4, <2>1, <2>2, <2>3, <2>4 DEF Set, Write, TypeOK, LiveIsServed, ResetsMeet, OnlyStartsFail
<1>5. ASSUME NEW p \in Servers, Start(p) \/ Serve(p) PROVE Inv'
  BY <1>0, <1>5
     DEF Start, Serve, TypeOK, LiveIsServed, ResetsMeet, LastIsThere, HeldIsFresh, CopyIsFresh, OnlyStartsFail
<1>6. ASSUME NEW p \in Servers, ResetGet(p) PROVE Inv'
  <2>1. CopyIsFresh'
    <3>1. PICK r \in scan[p] :
            IF redis[r].process \in {"pending", "processing"}
              THEN copy' = [copy EXCEPT ![p] = [key |-> r, rec |-> ResetRecord(redis[r])]]
              ELSE UNCHANGED copy
      BY <1>6 DEF ResetGet
    <3>2. CASE UNCHANGED copy
      BY <1>6, <3>2 DEF ResetGet, CopyIsFresh
    <3>3. CASE redis[r].process \in {"pending", "processing"}
      <4>1. r \in Requests /\ redis[r] # Missing
        BY <3>3 DEF TypeOK, Missing
      <4>2. r \in alive \cup over /\ last[r] = redis[r] /\ (r \in alive => r \in met)
        BY <1>6, <4>1 DEF ResetGet, LiveIsServed, LastIsThere, ResetsMeet
      <4> QED BY <1>6, <3>1, <3>3, <4>1, <4>2 DEF ResetGet, TypeOK, CopyIsFresh
    <3> QED BY <3>1, <3>2, <3>3
  <2> QED BY <1>0, <1>6, <2>1 DEF ResetGet, LiveIsServed, ResetsMeet, LastIsThere, HeldIsFresh, OnlyStartsFail
<1>7. ASSUME NEW p \in Servers, ResetSet(p) PROVE Inv'
  <2> DEFINE k == copy[p].key
  <2>1. /\ k \in Requests /\ k \in alive \cup over /\ server[p] = "resetting"
        /\ k \in met \/ (k \notin alive /\ copy[p].rec = ResetRecord(last[k]))
        /\ copy' = [copy EXCEPT ![p] = NoCopy]
        /\ UNCHANGED <<alive, over, held, met, server>>
        /\ k \in alive => k \in met
    BY <1>7 DEF ResetSet, TypeOK, CopyIsFresh
  <2>2. CASE UNCHANGED <<redis, last>>
    BY <1>0, <1>7, <2>1, <2>2
       DEF ResetSet, TypeOK, LiveIsServed, ResetsMeet, LastIsThere, HeldIsFresh, CopyIsFresh, OnlyStartsFail
  <2>3. CASE Write(k, copy[p].rec)
    <3> HIDE DEF k
    <3>1. \A r \in Requests : r # k => redis'[r] = redis[r] /\ last'[r] = last[r]
      BY <2>3 DEF Write, TypeOK
    <3>2. redis'[k] = copy[p].rec /\ last'[k] = copy[p].rec
      BY <2>1, <2>3 DEF Write, TypeOK
    <3>3. HeldIsFresh'
      BY <2>1, <3>1 DEF HeldIsFresh
    <3>4. CopyIsFresh'
      <4> SUFFICES ASSUME NEW q \in Servers, copy'[q] # NoCopy
                   PROVE  /\ server[q] = "resetting"
                          /\ copy[q].key \in alive \cup over
                          /\ \/ copy[q].key \in met
                             \/ /\ copy[q].key \notin alive
                                /\ copy[q].rec = ResetRecord(last'[copy[q].key])
                          /\ copy'[q] = copy[q]
        BY <2>1 DEF CopyIsFresh
      <4>1. copy'[q] = copy[q]
        BY <2>1 DEF TypeOK
      <4>2. /\ server[q] = "resetting" /\ copy[q].key \in Requests /\ copy[q].key \in alive \cup over
            /\ \/ copy[q].key \in met
               \/ copy[q].key \notin alive /\ copy[q].rec = ResetRecord(last[copy[q].key])
        BY <4>1 DEF CopyIsFresh, TypeOK
      <4>3. CASE copy[q].key = k /\ k \notin met
        <5>1. last[k] \in Record
          BY <2>1 DEF TypeOK
        <5> QED BY <2>1, <3>2, <4>1, <4>2, <4>3, <5>1, ResetTwice
      <4> QED BY <3>1, <4>1, <4>2, <4>3
    <3>5. LiveIsServed' /\ ResetsMeet'
      BY <2>1, <3>1 DEF LiveIsServed, ResetsMeet
    <3>6. LastIsThere' /\ OnlyStartsFail'
      BY <2>1, <3>1, <3>2 DEF TypeOK, LastIsThere, OnlyStartsFail
    <3> QED BY <1>0, <3>3, <3>4, <3>5, <3>6
  <2> QED BY <1>7, <2>2, <2>3 DEF ResetSet
<1>8. ASSUME NEW p \in Servers, Crash(p) PROVE Inv'
  <2>1. /\ \A r \in Requests : r \in alive' <=> r \in alive /\ Home[r] # p
        /\ \A r \in Requests : held'[r] # NoCopy => held'[r] = held[r] /\ r \in alive'
        /\ alive' \subseteq alive /\ alive \cup over = alive' \cup over'
    BY <1>8 DEF Crash, TypeOK, HeldIsFresh
  <2>2. HeldIsFresh'
    BY <1>8, <2>1 DEF Crash, HeldIsFresh
  <2>3. CopyIsFresh'
    BY <1>8, <2>1 DEF Crash, TypeOK, CopyIsFresh
  <2> QED BY <1>0, <1>8, <2>1, <2>2, <2>3
          DEF Crash, TypeOK, LiveIsServed, ResetsMeet, LastIsThere, OnlyStartsFail
<1>9. ASSUME NEW r \in Requests, Expire(r) PROVE Inv'
  <2>1. HeldIsFresh'
    BY <1>9, <1>m DEF Expire, TypeOK, HeldIsFresh, LastIsThere
  <2> QED BY <1>0, <1>m, <1>9, <2>1
          DEF Expire, TypeOK, LiveIsServed, ResetsMeet, LastIsThere, CopyIsFresh, OnlyStartsFail
<1>10. CASE UNCHANGED vars
  BY <1>10 DEF vars, TypeOK, LiveIsServed, ResetsMeet, LastIsThere, HeldIsFresh, CopyIsFresh, OnlyStartsFail
<1> QED BY <1>1, <1>2, <1>3, <1>4, <1>5, <1>6, <1>7, <1>8, <1>9, <1>10 DEF Next

LEMMA Invariance == Spec => []Inv
  BY InitInv, StepInv, PTL DEF Spec

(***************************************************************************)
(* With any number of servers, a record says "failed" of an upload whose   *)
(* handler or task runs only if another server was starting while it ran:  *)
(* a server's own reset is over before it listens, and neither an update   *)
(* nor an expiry between GET and SET brings a "failed" back.               *)
(***************************************************************************)
THEOREM OnlyStartsFailHolds == Spec => []OnlyStartsFail
<1>1. Inv => OnlyStartsFail
  BY DEF Inv
<1> QED BY <1>1, Invariance, PTL

-----------------------------------------------------------------------------
(* The atomic store.                                                       *)

LEMMA SameRecords ==
  /\ Atomic!Missing = Missing
  /\ Atomic!Record = Record
  /\ \A rec : /\ Atomic!Updates(Atomic!Fetched(rec)) = Updates(Fetched(rec))
              /\ Atomic!ResetRecord(rec) = ResetRecord(rec)
  BY DEF Atomic!Missing, Missing, Atomic!NoItems, NoItems,
         Atomic!Record, Record, Atomic!Processes, Processes, Atomic!ItemStates, ItemStates,
         Atomic!Updates, Updates, Atomic!Fetched, Fetched, Atomic!ResetRecord, ResetRecord,
         Atomic!ListFiles, ListFiles, Atomic!MarkUnsupported, MarkUnsupported,
         Atomic!MarkEmbedded, MarkEmbedded, Atomic!MarkAllCompleted, MarkAllCompleted,
         Atomic!MarkEmbeddingOver, MarkEmbeddingOver, Atomic!MarkCompleted, MarkCompleted

LEMMA AtomicStep ==
  ASSUME Inv, [Next]_vars
  PROVE  Atomic!ANext \/ UNCHANGED Atomic!statusVars
<1> USE DEF Inv, Atomic!statusVars, recordVars, uploadVars, serverVars
<1>1. ASSUME NEW r \in Requests, Begin(r) PROVE Atomic!ABegin(r)
  BY <1>1 DEF Begin, MeetOne, Atomic!ABegin
<1>2. ASSUME NEW r \in Requests, Get(r) PROVE UNCHANGED Atomic!statusVars
  BY <1>2 DEF Get
<1>3. ASSUME NEW r \in Requests, Set(r)
      PROVE  Atomic!AUpdate(r) \/ Atomic!ASpoil(r) \/ UNCHANGED Atomic!statusVars
  <2>1. CASE UNCHANGED <<redis, last>>
    BY <1>3, <2>1 DEF Set
  <2>2. CASE Write(r, held[r])
    <3>1. Atomic!AWrite(r, held[r]) /\ r \in alive /\ held[r] \in Record
      BY <1>3, <2>2 DEF Set, Write, Atomic!AWrite, HeldIsFresh, TypeOK
    <3>2. CASE r \in met
      BY <3>1, <3>2, SameRecords DEF Atomic!ASpoil
    <3>3. CASE r \notin met
      <4>1. PICK old \in Atomic!Readable(r) : held[r] \in Updates(Fetched(old))
        BY <1>3, <3>3 DEF Set, HeldIsFresh
      <4> QED BY <3>1, <3>3, <4>1, SameRecords DEF Atomic!AUpdate
    <3> QED BY <3>2, <3>3
  <2> QED BY <1>3, <2>1, <2>2 DEF Set
<1>4. ASSUME NEW r \in Requests, End(r) PROVE \E lost \in SUBSET Requests : Atomic!AEnd(lost)
  <2>1. Atomic!AEnd({r})
    BY <1>4 DEF End, Atomic!AEnd
  <2> QED BY <2>1
<1>5. ASSUME NEW p \in Servers, ResetGet(p) \/ Serve(p) PROVE UNCHANGED Atomic!statusVars
  BY <1>5 DEF ResetGet, Serve
<1>6. ASSUME NEW p \in Servers, Start(p) PROVE Atomic!AMeet
  BY <1>6 DEF Start, Atomic!AMeet
<1>7. ASSUME NEW p \in Servers, ResetSet(p)
      PROVE  \/ \E r \in Requests : Atomic!AReset(r) \/ Atomic!ASpoil(r)
             \/ UNCHANGED Atomic!statusVars
  <2>1. CASE UNCHANGED <<redis, last>>
    BY <1>7, <2>1 DEF ResetSet
  <2>2. CASE Write(copy[p].key, copy[p].rec)
    <3> DEFINE k == copy[p].key
    <3>1. /\ k \in Requests /\ copy[p].rec \in Record /\ Atomic!AWrite(k, copy[p].rec)
          /\ k \in met \/ (k \notin alive /\ copy[p].rec = ResetRecord(last[k]))
      BY <1>7, <2>2 DEF ResetSet, Write, TypeOK, CopyIsFresh, Atomic!AWrite
    <3> HIDE DEF k
    <3>2. CASE k \in met
      BY <3>1, <3>2, SameRecords DEF Atomic!ASpoil
    <3>3. CASE k \notin met
      <4>1. last[k] \in Atomic!Readable(k)
        BY <3>1, SameRecords DEF Atomic!Readable, LastIsThere
      <4> QED BY <3>1, <3>3, <4>1, SameRecords DEF Atomic!AReset
    <3> QED BY <3>1, <3>2, <3>3
  <2> QED BY <1>7, <2>1, <2>2 DEF ResetSet
<1>8. ASSUME NEW p \in Servers, Crash(p) PROVE \E lost \in SUBSET Requests : Atomic!AEnd(lost)
  BY <1>8 DEF Crash, TypeOK, Atomic!AEnd
<1>9. ASSUME NEW r \in Requests, Expire(r) PROVE Atomic!AExpire(r)
  BY <1>9, SameRecords DEF Expire, Atomic!AExpire
<1>10. CASE UNCHANGED vars
  BY <1>10 DEF vars
<1> QED BY <1>1, <1>2, <1>3, <1>4, <1>5, <1>6, <1>7, <1>8, <1>9, <1>10 DEF Next, Atomic!ANext

(***************************************************************************)
(* With any number of servers, UpdateFileStatus and the reset, each a GET  *)
(* and a SET with nothing held in between, implement the atomic operations *)
(* their callers take them for, except that a record which expired between *)
(* the two is back, and that an upload met by the start of another server  *)
(* is promised nothing.                                                    *)
(***************************************************************************)
THEOREM UpdatesAreAtomicHolds == Spec => UpdatesAreAtomic
<1>1. Init => Atomic!AInit
  BY SameRecords DEF Init, Atomic!AInit
<1>2. Inv /\ [Next]_vars => [Atomic!ANext]_(Atomic!statusVars)
  BY AtomicStep
<1> QED BY <1>1, <1>2, Invariance, PTL DEF Spec, UpdatesAreAtomic, Atomic!ASpec
=============================================================================
