--------------------------- MODULE DSEvents_proofs ---------------------------
(***************************************************************************)
(* Proofs about DSEvents: its type invariant, the mutual exclusion of      *)
(* _frameRateLock and _adminLock, and what they protect.                   *)
(***************************************************************************)
EXTENDS DSEvents, ListLemmas

-----------------------------------------------------------------------------
(* Types and lock ownership form the inductive invariant.                  *)

\* A new object owns no lock and owes no announcement.
LEMMA InitIInv == Init => TypeOK /\ LocksAreHeld
<1> SUFFICES ASSUME Init PROVE TypeOK /\ LocksAreHeld
  OBVIOUS
<1> USE ThreadsAssumption, BoundsAssumption
    DEF Init, Readings, Sources, CallbackPCs, SeedPCs, ClientPCs, Threads
<1>1. /\ seed \in [pc : SeedPCs, attempt : 1..MaxAttempts,
                   result : {"ERROR_NONE", "ERROR_GENERAL"}]
      /\ seed.pc \in {"sleep", "done"}
  <2>1. PICK s \in {"sleep", "done"} :
          seed = [pc |-> s, attempt |-> 1, result |-> "ERROR_GENERAL"]
    OBVIOUS
  <2> QED
    BY <2>1
<1>2. TypeOK
  <2>1. /\ owed \in [Dispatchers -> Seq(Sources)]
        /\ heard \in [Observers -> Seq(Sources)]
        /\ observers \in Seq(Observers)
        /\ pending \in Seq({"OnResolutionPreChange", "OnResolutionPostChange"})
    OBVIOUS
  <2>2. /\ pc \in [Dispatchers -> CallbackPCs] /\ client \in [Observers -> ClientPCs]
        /\ index \in [Dispatchers -> Nat \ {0}] /\ refs \in [Observers -> Int]
    OBVIOUS
  <2> QED
    BY <1>1, <2>1, <2>2 DEF TypeOK
<1>3. LocksAreHeld
  BY <1>1 DEF LocksAreHeld
<1> QED
  BY <1>2, <1>3

\* Every statement keeps the types; that a callback between its announcements
\* owes one, from LocksAreHeld, types the sequence it takes them from.
LEMMA NextTypeOK == TypeOK /\ LocksAreHeld /\ [Next]_vars => TypeOK'
<1> SUFFICES ASSUME TypeOK, LocksAreHeld, [Next]_vars PROVE TypeOK'
  OBVIOUS
<1> USE BoundsAssumption
    DEF TypeOK, halVars, rateVars, callbackVars, sinkVars, Readings, Sources,
        CallbackPCs, SeedPCs, ClientPCs, Threads
<1>1. CASE BeginModeChange
  BY <1>1, SMTT(30) DEF BeginModeChange
<1>2. CASE EndModeChange
  <2>1. hal' \in Readings /\ changing' \in BOOLEAN
    BY <1>2 DEF EndModeChange
  <2>2. pending' \in Seq({"OnResolutionPreChange", "OnResolutionPostChange"})
    BY <1>2 DEF EndModeChange
  <2> QED
    BY <1>2, <2>1, <2>2 DEF EndModeChange
<1>3. CASE HotPlug
  BY <1>3, SMTT(30) DEF HotPlug
<1>4. ASSUME NEW d \in Dispatchers, OnResolutionPreChange(d) PROVE TypeOK'
  <2>1. owed' \in [Dispatchers -> Seq(Sources)]
    BY <1>4 DEF OnResolutionPreChange
  <2>2. pc' \in [Dispatchers -> CallbackPCs]
    BY <1>4 DEF OnResolutionPreChange
  <2>3. pending' \in Seq({"OnResolutionPreChange", "OnResolutionPostChange"})
    BY <1>4 DEF OnResolutionPreChange
  <2>4. UNCHANGED <<hal, changing, changes, rateVars, adminLock, newRate, changed,
                    index, seed, sinkVars, heard>>
    BY <1>4 DEF OnResolutionPreChange
  <2> QED
    BY <2>1, <2>2, <2>3, <2>4, SMTT(30)
<1>5. ASSUME NEW d \in Dispatchers, OnResolutionPostChange(d) PROVE TypeOK'
  BY <1>5, SMTT(30) DEF OnResolutionPostChange
<1>6. ASSUME NEW d \in Dispatchers, DiffLock(d) PROVE TypeOK'
  BY <1>6, SMTT(30) DEF DiffLock, FrameRateLockFree
<1>7. ASSUME NEW d \in Dispatchers, DiffQuery(d) PROVE TypeOK'
  BY <1>7, SMTT(30) DEF DiffQuery, FrameRate
<1>8. ASSUME NEW d \in Dispatchers, DiffCompare(d) PROVE TypeOK'
  BY <1>8, SMTT(30) DEF DiffCompare
<1>9. ASSUME NEW d \in Dispatchers, DiffStore(d) PROVE TypeOK'
  <2>1. PostAnnouncements(changed[d]) \in Seq(Sources)
    <3>1. CASE changed[d]
      BY <3>1 DEF PostAnnouncements
    <3>2. CASE ~changed[d]
      BY <3>2 DEF PostAnnouncements
    <3> QED
      BY <3>1, <3>2
  <2> QED
    BY <1>9, <2>1 DEF DiffStore, CacheAfterDiff
<1>10. ASSUME NEW d \in Dispatchers, AnnounceLock(d) PROVE TypeOK'
  BY <1>10, SMTT(30) DEF AnnounceLock, AdminLockFree
<1>11. ASSUME NEW d \in Dispatchers, Updated(d) PROVE TypeOK'
  <2> DEFINE o == observers[index[d]]
  <2>1. o \in Observers
    BY <1>11 DEF Updated
  <2>2. owed[d] # <<>> /\ Head(owed[d]) \in Sources
    BY <1>11 DEF Updated, LocksAreHeld
  <2>3. heard' \in [Observers -> Seq(Sources)]
    <3>1. heard' = [heard EXCEPT ![o] = Append(heard[o], Head(owed[d]))]
      BY <1>11 DEF Updated
    <3> QED
      BY <3>1, <2>1, <2>2
  <2>4. index' \in [Dispatchers -> Nat \ {0}]
    <3>1. index' = [index EXCEPT ![d] = index[d] + 1]
      BY <1>11 DEF Updated
    <3>2. index[d] + 1 \in Nat \ {0}
      OBVIOUS
    <3> QED
      BY <3>1, <3>2
  <2>5. UNCHANGED <<halVars, rateVars, adminLock, pc, newRate, changed, owed, seed,
                    sinkVars>>
    BY <1>11 DEF Updated
  <2> QED
    BY <2>3, <2>4, <2>5, SMTT(30)
<1>12. ASSUME NEW d \in Dispatchers, AnnounceUnlock(d) PROVE TypeOK'
  <2>1. owed[d] # <<>>
    BY <1>12 DEF AnnounceUnlock, LocksAreHeld
  <2>2. owed' \in [Dispatchers -> Seq(Sources)]
    BY <1>12, <2>1 DEF AnnounceUnlock
  <2> QED
    BY <1>12, <2>2 DEF AnnounceUnlock, ReleaseAdminLock
<1>13. CASE SeedSleep
  <2>1. seed' = [seed EXCEPT !.pc = "lock", !.result = "ERROR_GENERAL"]
    BY <1>13 DEF SeedSleep
  <2>2. seed' \in [pc : SeedPCs, attempt : 1..MaxAttempts,
                  result : {"ERROR_NONE", "ERROR_GENERAL"}]
    BY <2>1
  <2> QED
    BY <1>13, <2>2 DEF SeedSleep
<1>14. CASE SeedLock
  <2>1. seed' = [seed EXCEPT !.pc = "query"]
    BY <1>14 DEF SeedLock
  <2>2. seed' \in [pc : SeedPCs, attempt : 1..MaxAttempts,
                  result : {"ERROR_NONE", "ERROR_GENERAL"}]
    BY <2>1
  <2> QED
    BY <1>14, <2>2, SMTT(30) DEF SeedLock
<1>15. CASE SeedQuery
  <2>1. PICK answer \in FrameRate :
          /\ cachedFrameRate' = answer[1]
          /\ seed' = [seed EXCEPT !.pc = "unlock", !.result = answer[2]]
    BY <1>15 DEF SeedQuery
  <2>2. answer[1] \in Readings /\ answer[2] \in {"ERROR_NONE", "ERROR_GENERAL"}
    BY DEF FrameRate
  <2> QED
    BY <1>15, <2>1, <2>2 DEF SeedQuery
<1>16. CASE SeedUnlock
  <2>1. seed' \in [pc : SeedPCs, attempt : 1..MaxAttempts,
                  result : {"ERROR_NONE", "ERROR_GENERAL"}]
    <3>1. CASE seed.result = "ERROR_NONE" \/ seed.attempt = MaxAttempts
      BY <1>16, <3>1 DEF SeedUnlock, LastAttempt
    <3>2. CASE ~(seed.result = "ERROR_NONE" \/ seed.attempt = MaxAttempts)
      <4>1. seed' = [seed EXCEPT !.pc = "sleep", !.attempt = seed.attempt + 1]
        BY <1>16, <3>2 DEF SeedUnlock, LastAttempt, NextAttempt
      <4>2. seed.attempt + 1 \in 1..MaxAttempts
        BY <3>2
      <4> QED
        BY <4>1, <4>2
    <3> QED
      BY <3>1, <3>2
  <2> QED
    BY <1>16, <2>1 DEF SeedUnlock
<1>17. ASSUME NEW o \in Observers, RegisterLock(o) PROVE TypeOK'
  BY <1>17, SMTT(30) DEF RegisterLock, AdminLockFree
<1>18. ASSUME NEW o \in Observers, RegisterPush(o) PROVE TypeOK'
  BY <1>18, SMTT(30) DEF RegisterPush
<1>19. ASSUME NEW o \in Observers, RegisterAddRef(o) PROVE TypeOK'
  BY <1>19, SMTT(30) DEF RegisterAddRef, AddRef
<1>20. ASSUME NEW o \in Observers, UnregisterLock(o) PROVE TypeOK'
  BY <1>20, SMTT(30) DEF UnregisterLock, AdminLockFree
<1>21. ASSUME NEW o \in Observers, UnregisterFind(o) PROVE TypeOK'
  <2>1. \/ client' = [client EXCEPT ![o] = "release"] /\ adminLock' = adminLock
        \/ client' = [client EXCEPT ![o] = "idle"] /\ adminLock' = Nobody
    BY <1>21, Zenon DEF UnregisterFind
  <2>2. client' \in [Observers -> ClientPCs]
    BY <2>1
  <2>3. adminLock' \in Dispatchers \union Observers \union {Nobody}
    BY <2>1
  <2>4. UNCHANGED <<halVars, rateVars, callbackVars, seed, observers, own, refs,
                    registrations, heard>>
    BY <1>21 DEF UnregisterFind
  <2> QED
    BY <2>2, <2>3, <2>4, SMTT(30)
<1>22. ASSUME NEW o \in Observers, UnregisterRelease(o) PROVE TypeOK'
  BY <1>22, SMTT(30) DEF UnregisterRelease, Release
<1>23. ASSUME NEW o \in Observers, UnregisterErase(o) PROVE TypeOK'
  <2>1. observers' \in Seq(Observers)
    <3>1. CASE Registered(o)
      BY <1>23, <3>1, RemoveFirstProperties DEF UnregisterErase, EraseEntry, Registered
    <3>2. CASE ~Registered(o)
      BY <1>23, <3>2 DEF UnregisterErase, EraseEntry, RemoveFirst, Registered
    <3> QED
      BY <3>1, <3>2
  <2> QED
    BY <1>23, <2>1 DEF UnregisterErase
<1>24. ASSUME NEW o \in Observers, DropReference(o) PROVE TypeOK'
  BY <1>24, SMTT(30) DEF DropReference, Release
<1>25. CASE Rest \/ UNCHANGED vars
  BY <1>25, SMTT(30) DEF Rest, vars
<1> QED
  BY <1>1, <1>2, <1>3, <1>4, <1>5, <1>6, <1>7, <1>8, <1>9, <1>10, <1>11, <1>12, <1>13,
     <1>14, <1>15, <1>16, <1>17, <1>18, <1>19, <1>20, <1>21, <1>22, <1>23, <1>24, <1>25
  DEF Next, Dispatch, SeedThread, Client, InCall

\* Every statement that enters a critical section has taken its lock and every
\* statement that leaves one gives it back.
LEMMA NextLocksAreHeld == TypeOK /\ LocksAreHeld /\ [Next]_vars => LocksAreHeld'
<1> SUFFICES ASSUME TypeOK, LocksAreHeld, [Next]_vars PROVE LocksAreHeld'
  OBVIOUS
<1> USE ThreadsAssumption
    DEF TypeOK, LocksAreHeld, halVars, rateVars, callbackVars, sinkVars, Readings,
        Sources, CallbackPCs, SeedPCs, ClientPCs, Threads
<1>1. CASE BeginModeChange
  BY <1>1 DEF BeginModeChange
<1>2. CASE EndModeChange
  BY <1>2 DEF EndModeChange
<1>3. CASE HotPlug
  BY <1>3 DEF HotPlug
<1>4. ASSUME NEW d \in Dispatchers, OnResolutionPreChange(d) PROVE LocksAreHeld'
  BY <1>4 DEF OnResolutionPreChange
<1>5. ASSUME NEW d \in Dispatchers, OnResolutionPostChange(d) PROVE LocksAreHeld'
  BY <1>5 DEF OnResolutionPostChange
<1>6. ASSUME NEW d \in Dispatchers, DiffLock(d) PROVE LocksAreHeld'
  BY <1>6 DEF DiffLock, FrameRateLockFree
<1>7. ASSUME NEW d \in Dispatchers, DiffQuery(d) PROVE LocksAreHeld'
  BY <1>7 DEF DiffQuery, FrameRate
<1>8. ASSUME NEW d \in Dispatchers, DiffCompare(d) PROVE LocksAreHeld'
  BY <1>8 DEF DiffCompare
<1>9. ASSUME NEW d \in Dispatchers, DiffStore(d) PROVE LocksAreHeld'
  BY <1>9 DEF DiffStore, PostAnnouncements, CacheAfterDiff
<1>10. ASSUME NEW d \in Dispatchers, AnnounceLock(d) PROVE LocksAreHeld'
  BY <1>10 DEF AnnounceLock, AdminLockFree
<1>11. ASSUME NEW d \in Dispatchers, Updated(d) PROVE LocksAreHeld'
  BY <1>11 DEF Updated
<1>12. ASSUME NEW d \in Dispatchers, AnnounceUnlock(d) PROVE LocksAreHeld'
  <2>1. owed[d] # <<>> /\ owed[d] \in Seq(Sources)
    BY <1>12 DEF AnnounceUnlock
  <2>2. Len(owed[d]) > 1 <=> Tail(owed[d]) # <<>>
    BY <2>1, TailIsEmpty, Zenon
  <2> QED
    BY <1>12, <2>2 DEF AnnounceUnlock, ReleaseAdminLock
<1>13. CASE SeedSleep
  BY <1>13 DEF SeedSleep
<1>14. CASE SeedLock
  BY <1>14 DEF SeedLock, FrameRateLockFree
<1>15. CASE SeedQuery
  BY <1>15 DEF SeedQuery, FrameRate
<1>16. CASE SeedUnlock
  BY <1>16 DEF SeedUnlock
<1>17. ASSUME NEW o \in Observers, RegisterLock(o) PROVE LocksAreHeld'
  BY <1>17 DEF RegisterLock, AdminLockFree
<1>18. ASSUME NEW o \in Observers, RegisterPush(o) PROVE LocksAreHeld'
  BY <1>18 DEF RegisterPush
<1>19. ASSUME NEW o \in Observers, RegisterAddRef(o) PROVE LocksAreHeld'
  BY <1>19 DEF RegisterAddRef, AddRef
<1>20. ASSUME NEW o \in Observers, UnregisterLock(o) PROVE LocksAreHeld'
  BY <1>20 DEF UnregisterLock, AdminLockFree
<1>21. ASSUME NEW o \in Observers, UnregisterFind(o) PROVE LocksAreHeld'
  <2>1. \/ client' = [client EXCEPT ![o] = "release"] /\ adminLock' = adminLock
        \/ client' = [client EXCEPT ![o] = "idle"] /\ adminLock' = Nobody
    BY <1>21, Zenon DEF UnregisterFind
  <2>2. /\ client[o] = "find"
        /\ UNCHANGED <<frameRateLock, pc, owed, seed>>
    BY <1>21 DEF UnregisterFind
  <2>3. CASE client' = [client EXCEPT ![o] = "release"] /\ adminLock' = adminLock
    BY <2>2, <2>3
  <2>4. CASE client' = [client EXCEPT ![o] = "idle"] /\ adminLock' = Nobody
    BY <2>2, <2>4
  <2> QED
    BY <2>1, <2>3, <2>4
<1>22. ASSUME NEW o \in Observers, UnregisterRelease(o) PROVE LocksAreHeld'
  BY <1>22 DEF UnregisterRelease, Release
<1>23. ASSUME NEW o \in Observers, UnregisterErase(o) PROVE LocksAreHeld'
  BY <1>23 DEF UnregisterErase
<1>24. ASSUME NEW o \in Observers, DropReference(o) PROVE LocksAreHeld'
  BY <1>24 DEF DropReference, Release
<1>25. CASE Rest \/ UNCHANGED vars
  BY <1>25 DEF Rest, vars
<1> QED
  BY <1>1, <1>2, <1>3, <1>4, <1>5, <1>6, <1>7, <1>8, <1>9, <1>10, <1>11, <1>12, <1>13,
     <1>14, <1>15, <1>16, <1>17, <1>18, <1>19, <1>20, <1>21, <1>22, <1>23, <1>24, <1>25
  DEF Next, Dispatch, SeedThread, Client, InCall

-----------------------------------------------------------------------------
\* Every value stays in its type, whatever the number of sinks, callback
\* threads, rates and attempts.
THEOREM TypeCorrect == Spec => []TypeOK
<1>1. Init => TypeOK /\ LocksAreHeld
  BY InitIInv
<1>2. TypeOK /\ LocksAreHeld /\ [Next]_vars => (TypeOK /\ LocksAreHeld)'
  BY NextTypeOK, NextLocksAreHeld
<1> QED
  BY <1>1, <1>2, PTL DEF Spec

\* _frameRateLock and _adminLock each have one owner, and the code they guard
\* runs only in that owner.
THEOREM LockDiscipline == Spec => []LocksAreHeld
<1>1. Init => TypeOK /\ LocksAreHeld
  BY InitIInv
<1>2. TypeOK /\ LocksAreHeld /\ [Next]_vars => (TypeOK /\ LocksAreHeld)'
  BY NextTypeOK, NextLocksAreHeld
<1> QED
  BY <1>1, <1>2, PTL DEF Spec

\* IsFrameRateChanged's comparison and store are one exchange: no interleaving
\* of callbacks and seed thread makes the verdict stale.
THEOREM ExactDiff == Spec => []DiffIsExact
<1>1. Init => DiffIsExact
  BY DEF Init, DiffIsExact
<1>2. TypeOK /\ LocksAreHeld /\ DiffIsExact /\ [Next]_vars => DiffIsExact'
  <2> SUFFICES ASSUME TypeOK, LocksAreHeld, DiffIsExact, [Next]_vars
               PROVE  DiffIsExact'
    OBVIOUS
  <2> USE DEF DiffIsExact
  <2>1. ASSUME NEW d \in Dispatchers, DiffCompare(d) PROVE DiffIsExact'
    BY <2>1 DEF DiffCompare, TypeOK, rateVars
  \* The writers of the cache hold the lock, so nobody else is at "store".
  <2>2. ASSUME NEW d \in Dispatchers, DiffStore(d) PROVE DiffIsExact'
    <3>1. \A e \in Dispatchers : pc'[e] # "store"
      BY <2>2 DEF DiffStore, LocksAreHeld, TypeOK
    <3> QED
      BY <3>1
  <2>3. CASE SeedQuery
    <3>1. \A e \in Dispatchers : pc'[e] # "store"
      BY <2>3, ThreadsAssumption DEF SeedQuery, LocksAreHeld, callbackVars
    <3> QED
      BY <3>1
  \* Everything else leaves the cache alone and puts no callback at "store".
  <2>4. CASE /\ UNCHANGED <<cachedFrameRate, newRate, changed>>
             /\ \A e \in Dispatchers : pc'[e] = "store" => pc[e] = "store"
    BY <2>4
  <2>5. CASE \E d \in Dispatchers : DiffQuery(d)
    BY <2>5 DEF DiffQuery, TypeOK, rateVars
  <2>6. CASE BeginModeChange \/ EndModeChange \/ HotPlug \/ Rest \/ UNCHANGED vars
             \/ SeedSleep \/ SeedLock \/ SeedUnlock
    BY <2>4, <2>6 DEF BeginModeChange, EndModeChange, HotPlug, Rest, SeedSleep,
                      SeedLock, SeedUnlock, vars, rateVars, callbackVars
  <2>7. ASSUME NEW d \in Dispatchers,
               \/ OnResolutionPreChange(d) \/ OnResolutionPostChange(d)
               \/ DiffLock(d) \/ AnnounceLock(d) \/ Updated(d) \/ AnnounceUnlock(d)
        PROVE  DiffIsExact'
    BY <2>4, <2>7 DEF OnResolutionPreChange, OnResolutionPostChange, DiffLock,
                      AnnounceLock, Updated, AnnounceUnlock, rateVars, TypeOK
  <2>8. ASSUME NEW o \in Observers, Client(o) PROVE DiffIsExact'
    BY <2>4, <2>8 DEF Client, InCall, RegisterLock, RegisterPush, RegisterAddRef,
                      UnregisterLock, UnregisterFind, UnregisterRelease,
                      UnregisterErase, DropReference, rateVars, callbackVars
  <2> QED
    BY <2>1, <2>2, <2>3, <2>5, <2>6, <2>7, <2>8 DEF Next, Dispatch, SeedThread
<1> QED
  BY <1>1, <1>2, TypeCorrect, LockDiscipline, PTL DEF Spec

\* Between two callbacks only the seed thread moves the cached rate.
THEOREM CacheMovesByDiffs == Spec => []CacheFollowsDiffs
<1>1. Init => CacheFollowsDiffs
  BY DEF Init, CacheFollowsDiffs
<1>2. CacheFollowsDiffs /\ [Next]_vars => CacheFollowsDiffs'
  <2> SUFFICES ASSUME CacheFollowsDiffs, [Next]_vars PROVE CacheFollowsDiffs'
    OBVIOUS
  <2> USE DEF CacheFollowsDiffs
  <2>1. ASSUME NEW d \in Dispatchers, DiffStore(d) PROVE CacheFollowsDiffs'
    BY <2>1 DEF DiffStore, CacheAfterDiff
  <2>2. CASE SeedQuery
    BY <2>2 DEF SeedQuery
  <2>3. CASE UNCHANGED <<cachedFrameRate, told, reseeded>>
    BY <2>3
  <2>4. CASE BeginModeChange \/ EndModeChange \/ HotPlug \/ Rest \/ UNCHANGED vars
             \/ SeedSleep \/ SeedLock \/ SeedUnlock
    BY <2>3, <2>4 DEF BeginModeChange, EndModeChange, HotPlug, Rest, SeedSleep,
                      SeedLock, SeedUnlock, vars, rateVars
  <2>5. ASSUME NEW d \in Dispatchers,
               \/ OnResolutionPreChange(d) \/ OnResolutionPostChange(d)
               \/ DiffLock(d) \/ DiffQuery(d) \/ DiffCompare(d)
               \/ AnnounceLock(d) \/ Updated(d) \/ AnnounceUnlock(d)
        PROVE  CacheFollowsDiffs'
    BY <2>3, <2>5 DEF OnResolutionPreChange, OnResolutionPostChange, DiffLock,
                      DiffQuery, DiffCompare, AnnounceLock, Updated,
                      AnnounceUnlock, rateVars
  <2>6. ASSUME NEW o \in Observers, Client(o) PROVE CacheFollowsDiffs'
    BY <2>3, <2>6 DEF Client, InCall, RegisterLock, RegisterPush, RegisterAddRef,
                      UnregisterLock, UnregisterFind, UnregisterRelease,
                      UnregisterErase, DropReference, rateVars
  <2> QED
    BY <2>1, <2>2, <2>4, <2>5, <2>6 DEF Next, Dispatch, SeedThread
<1> QED
  BY <1>1, <1>2, PTL DEF Spec

-----------------------------------------------------------------------------
(* References.                                                             *)

\* The entries of a sink are counted as the positions ListLemmas speaks of.
LEMMA EntriesArePositions ==
  ASSUME TypeOK, NEW o \in Observers
  PROVE  Entries(o) = Cardinality(Positions(observers, o)) /\ Entries(o) \in Nat
<1>1. observers \in Seq(Observers)
  BY DEF TypeOK
<1> QED
  BY <1>1, PositionsAreFinite DEF Entries, Positions

\* A new object has no entries, and each client holds its own reference.
LEMMA InitReferences == Init => ReferencesAreCounted
<1> SUFFICES ASSUME Init, NEW o \in Observers
             PROVE  /\ client[o] = "idle" /\ own[o] /\ refs[o] = 1
                    /\ Entries(o) = 0
  BY DEF ReferencesAreCounted
<1>1. {i \in 1..Len(observers) : observers[i] = o} = {}
  BY DEF Init
<1>2. Entries(o) = 0
  BY <1>1, FS_EmptySet DEF Entries
<1> QED
  BY <1>2 DEF Init

\* Only the owner of _adminLock changes _observers, and only by one entry.
LEMMA NextReferences ==
  TypeOK /\ LocksAreHeld /\ ReferencesAreCounted /\ [Next]_vars
    => ReferencesAreCounted'
<1> SUFFICES ASSUME TypeOK, LocksAreHeld, ReferencesAreCounted, [Next]_vars
             PROVE  ReferencesAreCounted'
  OBVIOUS
<1>0. /\ observers \in Seq(Observers) /\ refs \in [Observers -> Int]
      /\ client \in [Observers -> ClientPCs] /\ own \in [Observers -> BOOLEAN]
  BY DEF TypeOK
<1>1. CASE UNCHANGED <<observers, refs, client, own>>
  BY <1>1 DEF ReferencesAreCounted, Entries, Registered
<1>2. CASE UNCHANGED vars \/ Rest \/ BeginModeChange \/ EndModeChange \/ HotPlug
           \/ SeedThread
  BY <1>1, <1>2 DEF vars, sinkVars, Rest, BeginModeChange, EndModeChange, HotPlug,
                    SeedThread, SeedSleep, SeedLock, SeedQuery, SeedUnlock
<1>3. ASSUME NEW d \in Dispatchers, Dispatch(d) PROVE ReferencesAreCounted'
  BY <1>1, <1>3 DEF Dispatch, sinkVars, OnResolutionPreChange, OnResolutionPostChange,
                    DiffLock, DiffQuery, DiffCompare, DiffStore, AnnounceLock,
                    Updated, AnnounceUnlock
<1>4. ASSUME NEW o \in Observers, RegisterPush(o) PROVE ReferencesAreCounted'
  <2>1. ASSUME NEW e \in Observers
        PROVE  Entries(e)' = Entries(e) + IF e = o THEN 1 ELSE 0
    <3>1. /\ Entries(e) = Cardinality(Positions(observers, e))
          /\ Entries(e)' = Cardinality(Positions(observers', e))
      BY DEF Entries, Positions
    <3>2. observers' = Append(observers, o)
      BY <1>4 DEF RegisterPush
    <3>3. Cardinality(Positions(Append(observers, o), e)) =
            Cardinality(Positions(observers, e)) + IF o = e THEN 1 ELSE 0
      BY <1>0, CountAppend
    <3> QED
      BY <3>1, <3>2, <3>3
  <2>2. ASSUME NEW e \in Observers
        PROVE  Registered(e) => Registered(e)'
    BY <1>4, <1>0, <2>2 DEF RegisterPush, Registered
  <2> QED
    BY <1>4, <1>0, <2>1, <2>2, EntriesArePositions
    DEF RegisterPush, ReferencesAreCounted
<1>5. ASSUME NEW o \in Observers, UnregisterErase(o) PROVE ReferencesAreCounted'
  <2>1. PICK k \in 1..Len(observers) :
          observers[k] = o /\ observers' = RemoveAt(observers, k)
    <3>1. Registered(o)
      BY <1>5 DEF UnregisterErase, ReferencesAreCounted
    <3> QED
      BY <1>5, <1>0, <3>1, RemoveFirstProperties DEF UnregisterErase, EraseEntry, Registered
  <2>2. ASSUME NEW e \in Observers
        PROVE  Entries(e)' = Entries(e) - IF e = o THEN 1 ELSE 0
    <3>1. /\ Entries(e) = Cardinality(Positions(observers, e))
          /\ Entries(e)' = Cardinality(Positions(observers', e))
      BY DEF Entries, Positions
    <3>2. Cardinality(Positions(RemoveAt(observers, k), e)) =
            Cardinality(Positions(observers, e)) - IF observers[k] = e THEN 1 ELSE 0
      BY <1>0, CountRemoveAt
    <3> QED
      BY <3>1, <3>2, <2>1
  \* The lock keeps every other client out of its own call.
  <2>3. \A e \in Observers : e # o => client'[e] = "idle"
    BY <1>5, <1>0 DEF UnregisterErase, LocksAreHeld
  <2> QED
    <3>1. ASSUME NEW e \in Observers, e # o
          PROVE  /\ Entries(e)' = Entries(e) /\ Entries(e) \in Nat
                 /\ client[e] = "idle" /\ client'[e] = "idle"
      BY <1>5, <1>0, <2>2, <2>3, <3>1, EntriesArePositions
      DEF UnregisterErase, LocksAreHeld
    <3>2. /\ Entries(o)' = Entries(o) - 1 /\ Entries(o) \in Nat
          /\ refs[o] \in Int /\ client[o] = "erase" /\ client'[o] = "idle"
      BY <1>5, <1>0, <2>2, EntriesArePositions DEF UnregisterErase
    <3>3. UNCHANGED <<refs, own>>
      BY <1>5 DEF UnregisterErase
    <3>4. /\ refs[o] = Entries(o) + (IF own[o] THEN 1 ELSE 0) - 1
          /\ own[o]
      BY <3>2 DEF ReferencesAreCounted
    <3>5. refs'[o] = Entries(o)' + (IF own'[o] THEN 1 ELSE 0) - 0
      BY <3>2, <3>3, <3>4
    <3>6. ASSUME NEW e \in Observers, e # o
          PROVE  refs'[e] = Entries(e)' + (IF own'[e] THEN 1 ELSE 0) - 0
      BY <3>1, <3>3, <3>6 DEF ReferencesAreCounted
    <3>7. \A e \in Observers : client'[e] = "idle"
      BY <3>1, <3>2
    <3> QED
      BY <3>5, <3>6, <3>7 DEF ReferencesAreCounted
<1>6. ASSUME NEW o \in Observers,
             \/ RegisterLock(o) \/ RegisterAddRef(o) \/ UnregisterLock(o)
             \/ UnregisterRelease(o) \/ DropReference(o)
      PROVE  ReferencesAreCounted'
  <2>1. \A e \in Observers : Entries(e)' = Entries(e) /\ Registered(e)' = Registered(e)
    BY <1>6 DEF RegisterLock, RegisterAddRef, UnregisterLock, UnregisterRelease,
                DropReference, Entries, Registered
  <2> QED
    <3>1. \A e \in Observers : Entries(e) \in Nat /\ refs[e] \in Int
      BY <1>0, EntriesArePositions
    <3>2. CASE RegisterLock(o) \/ UnregisterLock(o)
      BY <1>0, <2>1, <3>1, <3>2
      DEF RegisterLock, UnregisterLock, ReferencesAreCounted
    <3>3. CASE RegisterAddRef(o)
      BY <1>0, <2>1, <3>1, <3>3 DEF RegisterAddRef, AddRef, ReferencesAreCounted
    <3>4. CASE UnregisterRelease(o)
      <4>1. Registered(o)'
        BY <2>1, <3>4 DEF UnregisterRelease, ReferencesAreCounted, Registered
      <4>2. \A e \in Observers : e # o => client[e] = "idle"
        BY <1>0, <3>4 DEF UnregisterRelease, LocksAreHeld
      <4>3. ASSUME NEW e \in Observers, e # o
            PROVE  /\ client'[e] = "idle"
                   /\ refs'[e] = Entries(e)' + (IF own'[e] THEN 1 ELSE 0) - 0
        BY <1>0, <2>1, <3>1, <3>4, <4>2, <4>3
        DEF UnregisterRelease, Release, ReferencesAreCounted
      <4>4. /\ client'[o] = "erase" /\ own'[o]
            /\ refs'[o] = Entries(o)' + (IF own'[o] THEN 1 ELSE 0) - 1
        <5>1. /\ own[o] /\ own' = own /\ client[o] = "release"
              /\ client'[o] = "erase" /\ refs'[o] = refs[o] - 1
          BY <1>0, <3>4 DEF UnregisterRelease, Release, ReferencesAreCounted
        <5>2. refs[o] = Entries(o) + (IF own[o] THEN 1 ELSE 0) - 0
          BY <5>1 DEF ReferencesAreCounted
        <5>3. refs[o] = Entries(o) + 1
          BY <5>1, <5>2, <3>1
        <5> QED
          BY <5>1, <5>3, <2>1, <3>1
      <4> QED
        BY <4>1, <4>3, <4>4 DEF ReferencesAreCounted
    <3>5. CASE DropReference(o)
      BY <1>0, <2>1, <3>1, <3>5, SMTT(30) DEF DropReference, Release, ReferencesAreCounted
    <3> QED
      BY <1>6, <3>2, <3>3, <3>4, <3>5
<1>7. ASSUME NEW o \in Observers, UnregisterFind(o) PROVE ReferencesAreCounted'
  <2>1. /\ UNCHANGED <<observers, own, refs>> /\ client[o] = "find"
        /\ \/ Registered(o) /\ client' = [client EXCEPT ![o] = "release"]
           \/ client' = [client EXCEPT ![o] = "idle"]
    BY <1>7, Zenon DEF UnregisterFind
  <2>2. \A e \in Observers : Entries(e)' = Entries(e) /\ Registered(e)' = Registered(e)
    BY <2>1 DEF Entries, Registered
  <2> QED
    BY <1>0, <2>1, <2>2 DEF ReferencesAreCounted
<1> QED
  BY <1>2, <1>3, <1>4, <1>5, <1>6, <1>7 DEF Next, Client, InCall

\* Outside Register and Unregister the implementation holds exactly one
\* reference per entry of _observers, however calls of different clients and
\* announcements interleave and however often a sink is registered.
THEOREM ReferencesBalance == Spec => []ReferencesMatchEntries
<1>1. Init => ReferencesAreCounted
  BY InitReferences
<1>2. ReferencesAreCounted => ReferencesMatchEntries
  BY DEF ReferencesAreCounted, ReferencesMatchEntries
<1> QED
  BY <1>1, <1>2, NextReferences, TypeCorrect, LockDiscipline, PTL DEF Spec

\* ResolutionChangeImpl never calls a sink whose count has reached zero.
THEOREM NoDeadSinkIsCalled == Spec => []CalledSinkIsAlive
<1>1. Init => ReferencesAreCounted
  BY InitReferences
<1>2. TypeOK /\ LocksAreHeld /\ ReferencesAreCounted => CalledSinkIsAlive
  <2> SUFFICES ASSUME TypeOK, LocksAreHeld, ReferencesAreCounted,
                      NEW d \in Dispatchers, pc[d] = "deliver",
                      index[d] <= Len(observers)
               PROVE  refs[observers[index[d]]] > 0
    BY DEF CalledSinkIsAlive
  <2> DEFINE o == observers[index[d]]
  <2>1. o \in Observers /\ index[d] \in 1..Len(observers)
    BY DEF TypeOK
  <2>2. client[o] = "idle"
    BY <2>1, ThreadsAssumption DEF LocksAreHeld
  <2>3. Entries(o) # 0
    <3>1. index[d] \in Positions(observers, o)
      BY <2>1 DEF Positions
    <3>2. IsFiniteSet(Positions(observers, o))
      BY PositionsAreFinite DEF TypeOK
    <3> QED
      BY <3>1, <3>2, <2>1, EntriesArePositions, FS_EmptySet
  <2>4. Entries(o) \in Nat
    BY <2>1, EntriesArePositions
  <2>5. refs[o] = Entries(o) + (IF own[o] THEN 1 ELSE 0)
    BY <2>1, <2>2 DEF ReferencesAreCounted
  <2>6. refs[o] = Entries(o) \/ refs[o] = Entries(o) + 1
    BY <2>4, <2>5
  <2> QED
    BY <2>3, <2>4, <2>6
<1> QED
  BY <1>1, <1>2, NextReferences, TypeCorrect, LockDiscipline, PTL DEF Spec

-----------------------------------------------------------------------------
(* Every statement is a step of the atomic EventFeed, or invisible to it.  *)

\* n announcements of event e.
Times(e, n) == [i \in 1..n |-> e]

\* One of them heard and n still ahead is n + 1 ahead.
LEMMA OneMore ==
  ASSUME NEW S, NEW s \in Seq(S), NEW e \in S, NEW n \in Nat
  PROVE  Append(s, e) \o Times(e, n) = s \o Times(e, n + 1)
<1> DEFINE l == Append(s, e) \o [i \in 1..n |-> e]
           r == s \o [i \in 1..n + 1 |-> e]
<1>1. [i \in 1..n |-> e] \in Seq(S) /\ Len([i \in 1..n |-> e]) = n
  OBVIOUS
<1>2. [i \in 1..n + 1 |-> e] \in Seq(S) /\ Len([i \in 1..n + 1 |-> e]) = n + 1
  OBVIOUS
<1>3. l \in Seq(S) /\ r \in Seq(S) /\ Len(l) = Len(s) + 1 + n /\ Len(r) = Len(s) + (n + 1)
  BY <1>1, <1>2
<1>4. ASSUME NEW i \in 1..Len(s) + 1 + n PROVE l[i] = r[i]
  <2>1. CASE i <= Len(s)
    BY <2>1, <1>1, <1>2
  <2>2. CASE i = Len(s) + 1
    BY <2>2, <1>1, <1>2
  <2>3. CASE i > Len(s) + 1
    BY <2>3, <1>1, <1>2
  <2> QED BY <2>1, <2>2, <2>3
<1> HIDE DEF l, r
<1>5. l = r
  BY <1>3, <1>4, SeqEqual
<1> QED BY <1>5 DEF l, r, Times

\* What is owed and heard in the abstract stays when nothing it is made of moves.
LEMMA SameStillOwed ==
  ASSUME owed' = owed, \A d \in Dispatchers : pc'[d] = "deliver" <=> pc[d] = "deliver"
  PROVE  StillOwed' = StillOwed
BY DEF StillOwed

LEMMA SameHeard ==
  ASSUME heard' = heard,
         \/ adminLock \notin Dispatchers /\ adminLock' \notin Dispatchers
         \/ UNCHANGED <<adminLock, index, observers, owed>>
  PROVE  HeardOrAhead' = HeardOrAhead
BY DEF HeardOrAhead, Ahead

\* Before a loop and after it nothing is ahead of the iterator.
LEMMA NothingAhead ==
  ASSUME TypeOK, adminLock \notin Dispatchers, NEW o \in Observers
  PROVE  HeardOrAhead[o] = heard[o]
BY DEF HeardOrAhead, Ahead, TypeOK

\* EventFeed's own instances of the library's operators are the same.
LEMMA SameOperators ==
  ASSUME NEW S, NEW s, NEW e
  PROVE  Feed!Cardinality(S) = Cardinality(S) /\ Feed!RemoveFirst(s, e) = RemoveFirst(s, e)
<1>1. Feed!Cardinality(S) = Cardinality(S)
  BY Zenon DEF Feed!Cardinality, Cardinality
<1>2. Feed!RemoveFirst(s, e) = RemoveFirst(s, e)
  BY Zenon DEF Feed!RemoveFirst, RemoveFirst, Feed!SelectInSeq, SelectInSeq, Feed!RemoveAt, RemoveAt, Feed!Min, Min
<1> QED BY <1>1, <1>2

LEMMA FeedStep ==
  ASSUME TypeOK, LocksAreHeld, DiffIsExact, TypeOK', [Next]_vars
  PROVE  [Feed!Next]_(Feed!vars)
<1> USE DEF halVars, rateVars, callbackVars, sinkVars
<1>1. ASSUME UNCHANGED <<observers, cachedFrameRate, StillOwed, HeardOrAhead>>
      PROVE  [Feed!Next]_(Feed!vars)
  BY <1>1 DEF Feed!vars
<1>2. ASSUME UNCHANGED <<observers, cachedFrameRate, adminLock, callbackVars, heard>>
      PROVE  [Feed!Next]_(Feed!vars)
  BY <1>1, <1>2, SameStillOwed, SameHeard
<1>3. CASE BeginModeChange \/ EndModeChange \/ HotPlug
  BY <1>2, <1>3 DEF BeginModeChange, EndModeChange, HotPlug
<1>4. CASE SeedSleep \/ SeedLock \/ SeedUnlock
  BY <1>2, <1>4 DEF SeedSleep, SeedLock, SeedUnlock
<1>5. CASE SeedQuery
  <2>1. UNCHANGED <<observers, StillOwed, HeardOrAhead>>
    BY <1>5, SameStillOwed, SameHeard DEF SeedQuery
  <2>2. cachedFrameRate' \in Readings
    BY DEF TypeOK
  <2>3. Feed!Seed(cachedFrameRate')
    BY <2>1 DEF Feed!Seed
  <2> QED BY <2>2, <2>3 DEF Feed!Next, Feed!Readings, Readings
<1>6. ASSUME NEW d \in Dispatchers, OnResolutionPostChange(d) \/ DiffLock(d) \/ DiffQuery(d) \/ DiffCompare(d)
      PROVE  [Feed!Next]_(Feed!vars)
  <2>1. UNCHANGED <<observers, cachedFrameRate, adminLock, owed, index, heard>>
    BY <1>6 DEF OnResolutionPostChange, DiffLock, DiffQuery, DiffCompare
  <2>2. \A e \in Dispatchers : pc'[e] = "deliver" <=> pc[e] = "deliver"
    BY <1>6 DEF OnResolutionPostChange, DiffLock, DiffQuery, DiffCompare, TypeOK
  <2> QED BY <1>1, <2>1, <2>2, SameStillOwed, SameHeard
<1>7. ASSUME NEW d \in Dispatchers, OnResolutionPreChange(d) PROVE [Feed!Next]_(Feed!vars)
  <2>1. UNCHANGED <<observers, cachedFrameRate, adminLock, index, heard>>
    BY <1>7 DEF OnResolutionPreChange
  <2>2. pc[d] = "idle" /\ owed[d] = <<>>
    BY <1>7 DEF OnResolutionPreChange, LocksAreHeld
  <2>3. StillOwed[d] = <<>>
    BY <2>2 DEF StillOwed
  <2>4. StillOwed' = [StillOwed EXCEPT ![d] = <<"PRE_RESOLUTION_CHANGE">>]
    BY <1>7 DEF OnResolutionPreChange, StillOwed, TypeOK
  <2>5. HeardOrAhead' = HeardOrAhead
    <3>1. ASSUME NEW o \in Observers PROVE Ahead(o)' = Ahead(o)
      <4>1. adminLock # d
        BY <2>2 DEF LocksAreHeld
      <4>2. adminLock \in Dispatchers => owed'[adminLock] = owed[adminLock]
        BY <1>7, <4>1 DEF OnResolutionPreChange, TypeOK
      <4> QED BY <2>1, <4>2 DEF Ahead
    <3> QED BY <2>1, <3>1 DEF HeardOrAhead
  <2>6. Feed!BeforeChange(d)
    BY <2>1, <2>3, <2>4, <2>5 DEF Feed!BeforeChange
  <2> QED BY <2>6 DEF Feed!Next
<1>8. ASSUME NEW d \in Dispatchers, DiffStore(d) PROVE [Feed!Next]_(Feed!vars)
  <2>1. UNCHANGED <<observers, adminLock, index, heard>> /\ cachedFrameRate' = newRate[d]
    BY <1>8 DEF DiffStore, CacheAfterDiff
  <2>2. pc[d] = "store" /\ owed[d] = <<>>
    BY <1>8 DEF DiffStore, LocksAreHeld
  <2>3. StillOwed[d] = <<>>
    BY <2>2 DEF StillOwed
  <2>4. StillOwed' = [StillOwed EXCEPT ![d] = PostAnnouncements(changed[d])]
    BY <1>8 DEF DiffStore, StillOwed, TypeOK
  <2>5. HeardOrAhead' = HeardOrAhead
    <3>1. ASSUME NEW o \in Observers PROVE Ahead(o)' = Ahead(o)
      <4>1. adminLock # d
        BY <2>2 DEF LocksAreHeld
      <4>2. adminLock \in Dispatchers => owed'[adminLock] = owed[adminLock]
        BY <1>8, <4>1 DEF DiffStore, TypeOK
      <4> QED BY <2>1, <4>2 DEF Ahead
    <3> QED BY <2>1, <3>1 DEF HeardOrAhead
  <2>6. changed[d] <=> newRate[d] # cachedFrameRate
    BY <2>2 DEF DiffIsExact
  <2>7. PostAnnouncements(changed[d]) =
          IF newRate[d] # cachedFrameRate THEN <<"FRAMERATE_CHANGE", "POST_RESOLUTION_CHANGE">>
                                          ELSE <<"POST_RESOLUTION_CHANGE">>
    BY <2>6 DEF PostAnnouncements
  <2>8. newRate[d] \in Readings
    BY DEF TypeOK
  <2>9. Feed!AfterChange(d, newRate[d])
    BY <2>1, <2>3, <2>4, <2>5, <2>7 DEF Feed!AfterChange
  <2> QED BY <2>8, <2>9 DEF Feed!Next, Feed!Readings, Readings
<1>9. ASSUME NEW d \in Dispatchers, AnnounceLock(d) PROVE [Feed!Next]_(Feed!vars)
  <2>1. /\ UNCHANGED <<observers, cachedFrameRate, owed, heard>>
        /\ pc[d] = "announce" /\ adminLock = Nobody /\ adminLock' = d
        /\ index' = [index EXCEPT ![d] = 1] /\ pc' = [pc EXCEPT ![d] = "deliver"]
    BY <1>9 DEF AnnounceLock, AdminLockFree
  <2>2. adminLock \notin Dispatchers
    BY <2>1, ThreadsAssumption DEF Threads
  <2>3. StillOwed[d] = owed[d] /\ owed[d] # <<>>
    BY <2>1 DEF StillOwed, LocksAreHeld
  <2>4. StillOwed' = [StillOwed EXCEPT ![d] = Tail(owed[d])]
    BY <2>1 DEF StillOwed, TypeOK
  <2>5. ASSUME NEW o \in Observers
        PROVE  HeardOrAhead'[o] = HeardOrAhead[o] \o Feed!Copies(Head(owed[d]), Feed!Registrations(o))
    <3>1. HeardOrAhead[o] = heard[o]
      BY <2>2, NothingAhead
    <3>2. index'[d] = 1
      BY <2>1 DEF TypeOK
    <3>3. Ahead(o)' = Feed!Copies(Head(owed[d]), Feed!Registrations(o))
      BY <2>1, <3>2, SameOperators DEF Ahead, Feed!Copies, Feed!Registrations
    <3> QED BY <2>1, <3>1, <3>3 DEF HeardOrAhead
  <2>6. HeardOrAhead' = [o \in Observers |->
                           HeardOrAhead[o] \o Feed!Copies(Head(StillOwed[d]), Feed!Registrations(o))]
    BY <2>3, <2>5 DEF HeardOrAhead
  <2>7. Feed!Announce(d)
    BY <2>1, <2>3, <2>4, <2>6 DEF Feed!Announce
  <2> QED BY <2>7 DEF Feed!Next
<1>10. ASSUME NEW d \in Dispatchers, Updated(d) PROVE [Feed!Next]_(Feed!vars)
  <2> DEFINE x == observers[index[d]]
             e == Head(owed[d])
             Later(o, k) == {j \in k..Len(observers) : observers[j] = o}
  <2>1. /\ UNCHANGED <<observers, cachedFrameRate, owed, pc, adminLock>>
        /\ pc[d] = "deliver" /\ index[d] <= Len(observers)
        /\ heard' = [heard EXCEPT ![x] = Append(heard[x], e)]
        /\ index' = [index EXCEPT ![d] = index[d] + 1]
    BY <1>10 DEF Updated
  <2>2. adminLock = d /\ owed[d] # <<>>
    BY <2>1 DEF LocksAreHeld
  <2>3. index[d] \in Nat \ {0} /\ index'[d] = index[d] + 1 /\ Len(observers) \in Nat
    BY <2>1 DEF TypeOK
  <2>4. e \in Sources
    BY <2>2 DEF TypeOK
  <2>5. StillOwed' = StillOwed
    BY <2>1, SameStillOwed
  <2>6. ASSUME NEW o \in Observers PROVE HeardOrAhead'[o] = HeardOrAhead[o]
    <3>1. /\ HeardOrAhead[o] = heard[o] \o Times(e, Cardinality(Later(o, index[d])))
          /\ HeardOrAhead'[o] = heard'[o] \o Times(e, Cardinality(Later(o, index[d] + 1)))
      BY <2>1, <2>2, <2>3 DEF HeardOrAhead, Ahead, Times
    <3>2. CASE o # x
      <4>1. Later(o, index[d]) = Later(o, index[d] + 1)
        BY <2>1, <2>3, <3>2
      <4>2. heard'[o] = heard[o]
        BY <2>1, <3>2 DEF TypeOK
      <4> QED BY <3>1, <4>1, <4>2
    <3>3. CASE o = x
      <4>1. Later(o, index[d]) = Later(o, index[d] + 1) \union {index[d]}
        BY <2>1, <2>3, <3>3
      <4>2. index[d] \notin Later(o, index[d] + 1)
        BY <2>3
      <4>3. IsFiniteSet(Later(o, index[d] + 1))
        <5>1. IsFiniteSet(index[d] + 1..Len(observers))
          BY <2>3, FS_Interval
        <5> QED BY <5>1, FS_Subset
      <4>4. /\ Cardinality(Later(o, index[d])) = Cardinality(Later(o, index[d] + 1)) + 1
            /\ Cardinality(Later(o, index[d] + 1)) \in Nat
        BY <4>1, <4>2, <4>3, FS_AddElement, FS_CardinalityType
      <4>5. heard'[o] = Append(heard[o], e) /\ heard[o] \in Seq(Sources)
        BY <2>1, <3>3 DEF TypeOK
      <4> DEFINE n == Cardinality(Later(o, index[d] + 1))
      <4>6. n \in Nat /\ heard[o] \in Seq(Sources) /\ e \in Sources
        BY <2>4, <4>4, <4>5
      <4>7. /\ HeardOrAhead[o] = heard[o] \o Times(e, n + 1)
            /\ HeardOrAhead'[o] = Append(heard[o], e) \o Times(e, n)
        BY <3>1, <4>4, <4>5
      <4> HIDE DEF n, e
      <4> QED BY <4>6, <4>7, OneMore
    <3> QED BY <3>2, <3>3
  <2>7. HeardOrAhead' = HeardOrAhead
    BY <2>6 DEF HeardOrAhead
  <2> QED BY <1>1, <2>1, <2>5, <2>7
<1>11. ASSUME NEW d \in Dispatchers, AnnounceUnlock(d) PROVE [Feed!Next]_(Feed!vars)
  <2>1. /\ UNCHANGED <<observers, cachedFrameRate, heard>>
        /\ pc[d] = "deliver" /\ index[d] > Len(observers) /\ adminLock' = Nobody
        /\ owed' = [owed EXCEPT ![d] = Tail(owed[d])]
        /\ pc' = [pc EXCEPT ![d] = IF Len(owed[d]) > 1 THEN "announce" ELSE "idle"]
    BY <1>11 DEF AnnounceUnlock, ReleaseAdminLock
  <2>2. adminLock = d /\ adminLock' \notin Dispatchers
    BY <2>1, ThreadsAssumption DEF LocksAreHeld, Threads
  <2>3. StillOwed' = StillOwed
    BY <2>1 DEF StillOwed, TypeOK
  <2>4. ASSUME NEW o \in Observers PROVE HeardOrAhead'[o] = HeardOrAhead[o]
    <3>1. {j \in index[d]..Len(observers) : observers[j] = o} = {}
      BY <2>1 DEF TypeOK
    <3>2. Ahead(o) = [i \in 1..0 |-> Head(owed[d])]
      BY <2>2, <3>1, FS_EmptySet DEF Ahead
    <3>3. heard[o] \o Ahead(o) = heard[o]
      BY <3>2 DEF TypeOK
    <3>4. heard'[o] \o Ahead(o)' = heard'[o]
      BY <2>2 DEF TypeOK, Ahead
    <3> QED BY <2>1, <3>3, <3>4 DEF HeardOrAhead
  <2>5. HeardOrAhead' = HeardOrAhead
    BY <2>4 DEF HeardOrAhead
  <2> QED BY <1>1, <2>1, <2>3, <2>5
<1>12. ASSUME NEW o \in Observers, Client(o) PROVE [Feed!Next]_(Feed!vars)
  <2>1. UNCHANGED <<cachedFrameRate, callbackVars, heard>> /\ StillOwed' = StillOwed
    <3>1. UNCHANGED <<cachedFrameRate, callbackVars, heard>>
      BY <1>12 DEF Client, InCall, RegisterLock, UnregisterLock, DropReference, RegisterPush,
                   RegisterAddRef, UnregisterFind, UnregisterRelease, UnregisterErase
    <3> QED BY <3>1, SameStillOwed
  <2>2. o \notin Dispatchers /\ Nobody \notin Dispatchers
    BY ThreadsAssumption DEF Threads
  <2>3. CASE DropReference(o)
    BY <1>2, <2>1, <2>3 DEF DropReference
  <2>4. CASE ~DropReference(o)
    <3>1. adminLock \notin Dispatchers /\ adminLock' \notin Dispatchers
      BY <1>12, <2>2, <2>4
      DEF Client, InCall, RegisterLock, UnregisterLock, RegisterPush, LocksAreHeld,
          RegisterAddRef, UnregisterFind, UnregisterRelease, UnregisterErase, AdminLockFree
    <3>2. HeardOrAhead' = HeardOrAhead
      BY <2>1, <3>1, SameHeard
    <3>3. CASE RegisterPush(o)
      <4>1. Feed!Subscribe(o)
        BY <2>1, <3>2, <3>3 DEF RegisterPush, Feed!Subscribe
      <4> QED BY <4>1 DEF Feed!Next
    <3>4. CASE UnregisterErase(o)
      <4>1. Feed!Unsubscribe(o)
        BY <2>1, <3>2, <3>4, SameOperators DEF UnregisterErase, EraseEntry, Feed!Unsubscribe
      <4> QED BY <4>1 DEF Feed!Next
    <3>5. CASE ~RegisterPush(o) /\ ~UnregisterErase(o)
      <4>1. observers' = observers
        BY <1>12, <2>4, <3>5 DEF Client, InCall, RegisterLock, UnregisterLock, RegisterAddRef,
                                 UnregisterFind, UnregisterRelease
      <4> QED BY <1>1, <2>1, <3>2, <4>1
    <3> QED BY <3>3, <3>4, <3>5
  <2> QED BY <2>3, <2>4
<1>13. CASE UNCHANGED vars
  BY <1>2, <1>13 DEF vars
<1> QED
  BY <1>3, <1>4, <1>5, <1>6, <1>7, <1>8, <1>9, <1>10, <1>11, <1>12, <1>13
  DEF Next, Dispatch, SeedThread, Rest

\* In the beginning nothing is owed and nothing has been heard.
LEMMA FeedInit == Init => Feed!Init
<1> SUFFICES ASSUME Init PROVE Feed!Init
  OBVIOUS
<1>1. adminLock \notin Dispatchers
  BY ThreadsAssumption DEF Init, Threads
<1>2. HeardOrAhead = [o \in Observers |-> <<>>]
  BY <1>1 DEF Init, HeardOrAhead, Ahead
<1>3. StillOwed = [d \in Dispatchers |-> <<>>]
  BY DEF Init, StillOwed
<1> QED BY <1>2, <1>3 DEF Init, Feed!Init

\* PlatformImplementation.cpp:150-285: whatever the number of callback threads,
\* sinks and rates, the callbacks, the seed thread and the clients together do
\* nothing that the atomic feed does not do: the safety part of ImplementsFeed.
THEOREM StepsOfTheFeed == Spec => Feed!Init /\ [][Feed!Next]_(Feed!vars)
<1>1. TypeOK /\ TypeOK' /\ LocksAreHeld /\ DiffIsExact /\ [Next]_vars => [Feed!Next]_(Feed!vars)
  BY FeedStep
<1> QED
  BY <1>1, FeedInit, TypeCorrect, LockDiscipline, ExactDiff, PTL DEF Spec
=============================================================================
