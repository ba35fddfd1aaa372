-------------------------- MODULE TestDriver_proofs --------------------------
(***************************************************************************)
(* Proofs about the test driver, for any set of objects, names, listeners  *)
(* and data.  The inductive invariant is the conjunction of what the runs  *)
(* check and of MutexHeld: only the thread inside browse() owns the mutex, *)
(* which is why the directory cannot change under a browse.  To say what   *)
(* listeners have heard it needs two more parts, about addresses: what is  *)
(* left to report, and that what is known was heard.                       *)
(***************************************************************************)
EXTENDS TestDriver, TLAPS

(* In a browse(), the objects left to report are those that are either     *)
(* announced or known, and not both.                                       *)
ReportsExactly ==
  \A b \in Browsers :
    pc[b] \in {"copy", "notify"} => diff[b] = SymmetricDifference(instances, known[b])

(* What is in _instances was reported under some name, which is its name   *)
(* unless it was announced again.                                          *)
KnownWasHeard ==
  \A b \in Browsers, o \in Objects :
    /\ heard[b][o] # Empty <=> o \in known[b]
    /\ o \in known[b] \cap instances => o \in again[b] \/ heard[b][o] = name[o]

(* The inductive invariant: types, a directory without dangling pointers,  *)
(* the mutex owned by the browse in its critical section, and what that    *)
(* browse has copied, has reported and has still to report.                *)
Inv == /\ TypeOK
       /\ DirectorySound
       /\ MutexHeld
       /\ BrowsePicture
       /\ ReportsExactly
       /\ KnownWasHeard

USE ObjectsAssumption, NamesAssumption, DataAssumption, FreeAssumption

(* Every step of the test driver keeps its variables in their types.       *)
LEMMA TypeStep == Inv /\ [Next]_vars => TypeOK'
<1> SUFFICES ASSUME Inv, [Next]_vars PROVE TypeOK'
  OBVIOUS
<1> TypeOK
  BY DEF Inv
<1> USE DEF TypeOK, Locations, Entries, api, local, story, Forget, Silence, Told
<1>1. ASSUME NEW o \in Objects, Create(o) PROVE TypeOK'
  BY <1>1 DEF Create
<1>2. ASSUME NEW o \in Objects, NEW n \in Names \cup {Empty}, Announce(o, n)
      PROVE TypeOK'
  BY <1>2 DEF Announce
<1>3. ASSUME NEW o \in Objects, Withdraw(o) PROVE TypeOK'
  BY <1>3 DEF Withdraw
<1>4. ASSUME NEW o \in Objects, Destroy(o) PROVE TypeOK'
  BY <1>4 DEF Destroy, NoInstances
<1>5. ASSUME NEW o \in Objects, NEW d \in Data, Set(o, d) PROVE TypeOK'
  BY <1>5 DEF Set
<1>6. ASSUME NEW o \in Objects, SetReturn(o) PROVE TypeOK'
  BY <1>6 DEF SetReturn
<1>7. ASSUME NEW b \in Browsers, BeginBrowsing(b) PROVE TypeOK'
  BY <1>7 DEF BeginBrowsing
<1>8. ASSUME NEW b \in Browsers, EndBrowsing(b) PROVE TypeOK'
  BY <1>8 DEF EndBrowsing
<1>9. ASSUME NEW b \in Browsers, NEW l \in Listeners, AddListener(b, l)
      PROVE TypeOK'
  BY <1>9 DEF AddListener
<1>10. ASSUME NEW b \in Browsers, NEW l \in Listeners, RemoveListener(b, l)
       PROVE TypeOK'
  BY <1>10 DEF RemoveListener
<1>11. ASSUME NEW b \in Browsers, Browse(b) PROVE TypeOK'
  BY <1>11 DEF Browse
<1>12. ASSUME NEW b \in Browsers, Discover(b) PROVE TypeOK'
  BY <1>12 DEF Discover
<1>13. ASSUME NEW b \in Browsers, Acquire(b) PROVE TypeOK'
  BY <1>13 DEF Acquire, NoInstances, SymmetricDifference
<1>14. ASSUME NEW b \in Browsers, CopyInstance(b) PROVE TypeOK'
  <2>0. PICK i \in todo[b] :
          /\ \E d \in ReadData(i) : imap' = [imap EXCEPT ![b][name[i]] = d]
          /\ todo' = [todo EXCEPT ![b] = @ \ {i}]
    BY <1>14 DEF CopyInstance
  <2>1. PICK d \in ReadData(i) : imap' = [imap EXCEPT ![b][name[i]] = d]
    BY <2>0
  <2>2. imap' \in [Objects -> [Names -> Entries \cup {NoEntry}]]
    <3>1. d \in Entries
      BY DEF ReadData
    <3>2. [imap[b] EXCEPT ![name[i]] = d] \in [Names -> Entries \cup {NoEntry}]
      BY <3>1
    <3> QED
      BY <2>1, <3>2
  <2> QED
    BY <1>14, <2>0, <2>2 DEF CopyInstance
<1>15. ASSUME NEW b \in Browsers, CopyDone(b) PROVE TypeOK'
  BY <1>15 DEF CopyDone
<1>16. ASSUME NEW b \in Browsers, NotifyAdded(b) PROVE TypeOK'
  <2>1. PICK i \in diff[b] \ known[b] :
          /\ known' = [known EXCEPT ![b] = @ \cup {i}]
          /\ heard' = [heard EXCEPT ![b][i] = name[i]]
          /\ again' = [again EXCEPT ![b] = @ \ {i}]
          /\ diff' = [diff EXCEPT ![b] = @ \ {i}]
    BY <1>16 DEF NotifyAdded
  <2>2. i \in instances
    BY <1>16, <2>1 DEF Inv, ReportsExactly, SymmetricDifference, NotifyAdded
  <2>3. name[i] \in Names
    BY <2>2 DEF Inv, DirectorySound
  <2> QED
    BY <1>16, <2>1, <2>3 DEF NotifyAdded
<1>17. ASSUME NEW b \in Browsers, NEW n \in Names \cup {Empty}, NotifyRemoved(b, n)
       PROVE TypeOK'
  BY <1>17 DEF NotifyRemoved
<1>18. ASSUME NEW b \in Browsers, Release(b) PROVE TypeOK'
  BY <1>18 DEF Release
<1>19. ASSUME UNCHANGED vars PROVE TypeOK'
  BY <1>19 DEF vars
<1> QED
  BY <1>1, <1>2, <1>3, <1>4, <1>5, <1>6, <1>7, <1>8, <1>9, <1>10, <1>11, <1>12,
     <1>13, <1>14, <1>15, <1>16, <1>17, <1>18, <1>19
     DEF Next, Call, BrowserCall, Progress, BrowseStep

(* No step leaves a dead or nameless object in the directory.              *)
LEMMA DirectoryStep == Inv /\ [Next]_vars => DirectorySound'
<1> SUFFICES ASSUME Inv, [Next]_vars PROVE DirectorySound'
  OBVIOUS
<1> USE DEF Inv, TypeOK, DirectorySound, Locations, api, local, story
<1>1. ASSUME NEW o \in Objects, Create(o) PROVE DirectorySound'
  BY <1>1 DEF Create
<1>2. ASSUME NEW o \in Objects, NEW n \in Names \cup {Empty}, Announce(o, n)
      PROVE DirectorySound'
  BY <1>2 DEF Announce, Ready
<1>3. ASSUME NEW o \in Objects, Withdraw(o) PROVE DirectorySound'
  BY <1>3 DEF Withdraw
<1>4. ASSUME NEW o \in Objects, Destroy(o) PROVE DirectorySound'
  BY <1>4 DEF Destroy
<1>5. ASSUME NEW o \in Objects, NEW d \in Data, Set(o, d) PROVE DirectorySound'
  BY <1>5 DEF Set, Ready
<1>6. ASSUME NEW o \in Objects, SetReturn(o) PROVE DirectorySound'
  BY <1>6 DEF SetReturn
<1>7. ASSUME NEW b \in Browsers, BeginBrowsing(b) PROVE DirectorySound'
  BY <1>7 DEF BeginBrowsing, Ready
<1>8. ASSUME NEW b \in Browsers, EndBrowsing(b) PROVE DirectorySound'
  BY <1>8 DEF EndBrowsing, Ready
<1>9. ASSUME NEW b \in Browsers, NEW l \in Listeners, AddListener(b, l)
      PROVE DirectorySound'
  BY <1>9 DEF AddListener
<1>10. ASSUME NEW b \in Browsers, NEW l \in Listeners, RemoveListener(b, l)
      PROVE DirectorySound'
  BY <1>10 DEF RemoveListener
<1>11. ASSUME NEW b \in Browsers, Browse(b) PROVE DirectorySound'
  BY <1>11 DEF Browse, Ready
<1>12. ASSUME NEW b \in Browsers, Discover(b) PROVE DirectorySound'
  BY <1>12 DEF Discover, Ready
<1>13. ASSUME NEW b \in Browsers, Acquire(b) PROVE DirectorySound'
  BY <1>13 DEF Acquire
<1>14. ASSUME NEW b \in Browsers, CopyInstance(b) PROVE DirectorySound'
  BY <1>14 DEF CopyInstance
<1>15. ASSUME NEW b \in Browsers, CopyDone(b) PROVE DirectorySound'
  BY <1>15 DEF CopyDone
<1>16. ASSUME NEW b \in Browsers, NotifyAdded(b) PROVE DirectorySound'
  BY <1>16 DEF NotifyAdded
<1>17. ASSUME NEW b \in Browsers, NEW n \in Names \cup {Empty}, NotifyRemoved(b, n)
      PROVE DirectorySound'
  BY <1>17 DEF NotifyRemoved
<1>18. ASSUME NEW b \in Browsers, Release(b) PROVE DirectorySound'
  BY <1>18 DEF Release
<1>19. ASSUME UNCHANGED vars PROVE DirectorySound'
  BY <1>19 DEF vars
<1> QED
  BY <1>1, <1>2, <1>3, <1>4, <1>5, <1>6, <1>7, <1>8, <1>9, <1>10, <1>11, <1>12,
     <1>13, <1>14, <1>15, <1>16, <1>17, <1>18, <1>19
     DEF Next, Call, BrowserCall, Progress, BrowseStep

(* Only a thread that finds the mutex free enters the critical section.    *)
LEMMA MutexStep == Inv /\ [Next]_vars => MutexHeld'
<1> SUFFICES ASSUME Inv, [Next]_vars PROVE MutexHeld'
  OBVIOUS
<1> USE DEF Inv, TypeOK, MutexHeld, Locations, api, local, story
<1>1. ASSUME NEW o \in Objects, Create(o) PROVE MutexHeld'
  BY <1>1 DEF Create
<1>2. ASSUME NEW o \in Objects, NEW n \in Names \cup {Empty}, Announce(o, n)
      PROVE MutexHeld'
  BY <1>2 DEF Announce
<1>3. ASSUME NEW o \in Objects, Withdraw(o) PROVE MutexHeld'
  BY <1>3 DEF Withdraw
<1>4. ASSUME NEW o \in Objects, Destroy(o) PROVE MutexHeld'
  BY <1>4 DEF Destroy
<1>5. ASSUME NEW o \in Objects, NEW d \in Data, Set(o, d) PROVE MutexHeld'
  BY <1>5 DEF Set, Ready
<1>6. ASSUME NEW o \in Objects, SetReturn(o) PROVE MutexHeld'
  BY <1>6 DEF SetReturn
<1>7. ASSUME NEW b \in Browsers, BeginBrowsing(b) PROVE MutexHeld'
  BY <1>7 DEF BeginBrowsing, Ready
<1>8. ASSUME NEW b \in Browsers, EndBrowsing(b) PROVE MutexHeld'
  BY <1>8 DEF EndBrowsing, Ready
<1>9. ASSUME NEW b \in Browsers, NEW l \in Listeners, AddListener(b, l)
      PROVE MutexHeld'
  BY <1>9 DEF AddListener
<1>10. ASSUME NEW b \in Browsers, NEW l \in Listeners, RemoveListener(b, l)
      PROVE MutexHeld'
  BY <1>10 DEF RemoveListener
<1>11. ASSUME NEW b \in Browsers, Browse(b) PROVE MutexHeld'
  BY <1>11 DEF Browse, Ready
<1>12. ASSUME NEW b \in Browsers, Discover(b) PROVE MutexHeld'
  BY <1>12 DEF Discover, Ready
<1>13. ASSUME NEW b \in Browsers, Acquire(b) PROVE MutexHeld'
  BY <1>13 DEF Acquire
<1>14. ASSUME NEW b \in Browsers, CopyInstance(b) PROVE MutexHeld'
  BY <1>14 DEF CopyInstance
<1>15. ASSUME NEW b \in Browsers, CopyDone(b) PROVE MutexHeld'
  BY <1>15 DEF CopyDone
<1>16. ASSUME NEW b \in Browsers, NotifyAdded(b) PROVE MutexHeld'
  BY <1>16 DEF NotifyAdded
<1>17. ASSUME NEW b \in Browsers, NEW n \in Names \cup {Empty}, NotifyRemoved(b, n)
      PROVE MutexHeld'
  BY <1>17 DEF NotifyRemoved
<1>18. ASSUME NEW b \in Browsers, Release(b) PROVE MutexHeld'
  BY <1>18 DEF Release
<1>19. ASSUME UNCHANGED vars PROVE MutexHeld'
  BY <1>19 DEF vars
<1> QED
  BY <1>1, <1>2, <1>3, <1>4, <1>5, <1>6, <1>7, <1>8, <1>9, <1>10, <1>11, <1>12,
     <1>13, <1>14, <1>15, <1>16, <1>17, <1>18, <1>19
     DEF Next, Call, BrowserCall, Progress, BrowseStep

(* Names are copied one by one, and the directory stands still meanwhile.   *)
LEMMA PictureStep == Inv /\ [Next]_vars => BrowsePicture'
<1> SUFFICES ASSUME Inv, [Next]_vars PROVE BrowsePicture'
  OBVIOUS
<1> USE DEF Inv, TypeOK, BrowsePicture, DirectorySound, MutexHeld, Instances, AnnouncedNames, api, local, story
<1>1. ASSUME NEW o \in Objects, Create(o) PROVE BrowsePicture'
  BY <1>1 DEF Create
<1>2. ASSUME NEW o \in Objects, NEW n \in Names \cup {Empty}, Announce(o, n)
      PROVE BrowsePicture'
  BY <1>2 DEF Announce
<1>3. ASSUME NEW o \in Objects, Withdraw(o) PROVE BrowsePicture'
  BY <1>3 DEF Withdraw
<1>4. ASSUME NEW o \in Objects, Destroy(o) PROVE BrowsePicture'
  BY <1>4 DEF Destroy
<1>5. ASSUME NEW o \in Objects, NEW d \in Data, Set(o, d) PROVE BrowsePicture'
  BY <1>5 DEF Set, Ready
<1>6. ASSUME NEW o \in Objects, SetReturn(o) PROVE BrowsePicture'
  BY <1>6 DEF SetReturn
<1>7. ASSUME NEW b \in Browsers, BeginBrowsing(b) PROVE BrowsePicture'
  BY <1>7 DEF BeginBrowsing, Ready
<1>8. ASSUME NEW b \in Browsers, EndBrowsing(b) PROVE BrowsePicture'
  BY <1>8 DEF EndBrowsing, Ready
<1>9. ASSUME NEW b \in Browsers, NEW l \in Listeners, AddListener(b, l)
      PROVE BrowsePicture'
  BY <1>9 DEF AddListener
<1>10. ASSUME NEW b \in Browsers, NEW l \in Listeners, RemoveListener(b, l)
      PROVE BrowsePicture'
  BY <1>10 DEF RemoveListener
<1>11. ASSUME NEW b \in Browsers, Browse(b) PROVE BrowsePicture'
  BY <1>11 DEF Browse, Ready
<1>12. ASSUME NEW b \in Browsers, Discover(b) PROVE BrowsePicture'
  BY <1>12 DEF Discover, Ready
<1>13. ASSUME NEW b \in Browsers, Acquire(b) PROVE BrowsePicture'
  BY <1>13 DEF Acquire, NoInstances
<1>14. ASSUME NEW b \in Browsers, CopyInstance(b) PROVE BrowsePicture'
  <2>1. PICK i \in todo[b] :
          /\ \E d \in ReadData(i) : imap' = [imap EXCEPT ![b][name[i]] = d]
          /\ todo' = [todo EXCEPT ![b] = @ \ {i}]
    BY <1>14 DEF CopyInstance
  <2>2. PICK d \in ReadData(i) : imap' = [imap EXCEPT ![b][name[i]] = d]
    BY <2>1
  <2>3. /\ pc[b] = "copy" /\ mutex = b
        /\ UNCHANGED <<name, instances, pc, mutex>>
    BY <1>14 DEF CopyInstance
  <2>4. d # NoEntry
    BY <2>1 DEF ReadData, Entries
  <2>5. i \in instances /\ name[i] \in Names
    BY <2>1, <2>3
  <2>6. Instances(b)' = Instances(b) \cup {name[i]}
    BY <2>2, <2>4, <2>5
  <2>7. Instances(b)' = {name[k] : k \in instances \ todo'[b]}
    <3>1. instances \ todo'[b] = (instances \ todo[b]) \cup {i}
      BY <2>1, <2>5
    <3> QED
      BY <2>3, <2>6, <3>1
  <2>8. \A c \in Browsers : c # b => pc[c] \notin {"copy", "notify"}
    BY <2>3
  <2> QED
    BY <2>1, <2>3, <2>7, <2>8
<1>15. ASSUME NEW b \in Browsers, CopyDone(b) PROVE BrowsePicture'
  BY <1>15 DEF CopyDone
<1>16. ASSUME NEW b \in Browsers, NotifyAdded(b) PROVE BrowsePicture'
  BY <1>16 DEF NotifyAdded
<1>17. ASSUME NEW b \in Browsers, NEW n \in Names \cup {Empty}, NotifyRemoved(b, n)
      PROVE BrowsePicture'
  BY <1>17 DEF NotifyRemoved
<1>18. ASSUME NEW b \in Browsers, Release(b) PROVE BrowsePicture'
  BY <1>18 DEF Release
<1>19. ASSUME UNCHANGED vars PROVE BrowsePicture'
  BY <1>19 DEF vars
<1> QED
  BY <1>1, <1>2, <1>3, <1>4, <1>5, <1>6, <1>7, <1>8, <1>9, <1>10, <1>11, <1>12,
     <1>13, <1>14, <1>15, <1>16, <1>17, <1>18, <1>19
     DEF Next, Call, BrowserCall, Progress, BrowseStep

(* A report moves an object from the difference to what is known.          *)
LEMMA ReportStep == Inv /\ [Next]_vars => ReportsExactly'
<1> SUFFICES ASSUME Inv, [Next]_vars PROVE ReportsExactly'
  OBVIOUS
<1> USE DEF Inv, TypeOK, ReportsExactly, MutexHeld, SymmetricDifference, api, local, story
<1>1. ASSUME NEW o \in Objects, Create(o) PROVE ReportsExactly'
  BY <1>1 DEF Create
<1>2. ASSUME NEW o \in Objects, NEW n \in Names \cup {Empty}, Announce(o, n)
      PROVE ReportsExactly'
  BY <1>2 DEF Announce
<1>3. ASSUME NEW o \in Objects, Withdraw(o) PROVE ReportsExactly'
  BY <1>3 DEF Withdraw
<1>4. ASSUME NEW o \in Objects, Destroy(o) PROVE ReportsExactly'
  BY <1>4 DEF Destroy
<1>5. ASSUME NEW o \in Objects, NEW d \in Data, Set(o, d) PROVE ReportsExactly'
  BY <1>5 DEF Set, Ready
<1>6. ASSUME NEW o \in Objects, SetReturn(o) PROVE ReportsExactly'
  BY <1>6 DEF SetReturn
<1>7. ASSUME NEW b \in Browsers, BeginBrowsing(b) PROVE ReportsExactly'
  BY <1>7 DEF BeginBrowsing, Ready
<1>8. ASSUME NEW b \in Browsers, EndBrowsing(b) PROVE ReportsExactly'
  BY <1>8 DEF EndBrowsing, Ready
<1>9. ASSUME NEW b \in Browsers, NEW l \in Listeners, AddListener(b, l)
      PROVE ReportsExactly'
  BY <1>9 DEF AddListener
<1>10. ASSUME NEW b \in Browsers, NEW l \in Listeners, RemoveListener(b, l)
      PROVE ReportsExactly'
  BY <1>10 DEF RemoveListener
<1>11. ASSUME NEW b \in Browsers, Browse(b) PROVE ReportsExactly'
  BY <1>11 DEF Browse, Ready
<1>12. ASSUME NEW b \in Browsers, Discover(b) PROVE ReportsExactly'
  BY <1>12 DEF Discover, Ready
<1>13. ASSUME NEW b \in Browsers, Acquire(b) PROVE ReportsExactly'
  BY <1>13 DEF Acquire
<1>14. ASSUME NEW b \in Browsers, CopyInstance(b) PROVE ReportsExactly'
  BY <1>14 DEF CopyInstance
<1>15. ASSUME NEW b \in Browsers, CopyDone(b) PROVE ReportsExactly'
  BY <1>15 DEF CopyDone
<1>16. ASSUME NEW b \in Browsers, NotifyAdded(b) PROVE ReportsExactly'
  BY <1>16 DEF NotifyAdded
<1>17. ASSUME NEW b \in Browsers, NEW n \in Names \cup {Empty}, NotifyRemoved(b, n)
      PROVE ReportsExactly'
  BY <1>17 DEF NotifyRemoved
<1>18. ASSUME NEW b \in Browsers, Release(b) PROVE ReportsExactly'
  BY <1>18 DEF Release
<1>19. ASSUME UNCHANGED vars PROVE ReportsExactly'
  BY <1>19 DEF vars
<1> QED
  BY <1>1, <1>2, <1>3, <1>4, <1>5, <1>6, <1>7, <1>8, <1>9, <1>10, <1>11, <1>12,
     <1>13, <1>14, <1>15, <1>16, <1>17, <1>18, <1>19
     DEF Next, Call, BrowserCall, Progress, BrowseStep

(* A report is remembered by address and heard by name; announce() changes *)
(* the name of a known object only where it is announced again.            *)
LEMMA HeardStep == Inv /\ [Next]_vars => KnownWasHeard'
<1> SUFFICES ASSUME Inv, [Next]_vars PROVE KnownWasHeard'
  OBVIOUS
<1> USE DEF Inv, TypeOK, KnownWasHeard, Forget, Silence, Told, api, local, story
<1>1. ASSUME NEW o \in Objects, Create(o) PROVE KnownWasHeard'
  BY <1>1 DEF Create
<1>2. ASSUME NEW o \in Objects, NEW n \in Names \cup {Empty}, Announce(o, n)
      PROVE KnownWasHeard'
  BY <1>2 DEF Announce
<1>3. ASSUME NEW o \in Objects, Withdraw(o) PROVE KnownWasHeard'
  BY <1>3 DEF Withdraw
<1>4. ASSUME NEW o \in Objects, Destroy(o) PROVE KnownWasHeard'
  BY <1>4 DEF Destroy
<1>5. ASSUME NEW o \in Objects, NEW d \in Data, Set(o, d) PROVE KnownWasHeard'
  BY <1>5 DEF Set, Ready
<1>6. ASSUME NEW o \in Objects, SetReturn(o) PROVE KnownWasHeard'
  BY <1>6 DEF SetReturn
<1>7. ASSUME NEW b \in Browsers, BeginBrowsing(b) PROVE KnownWasHeard'
  BY <1>7 DEF BeginBrowsing, Ready
<1>8. ASSUME NEW b \in Browsers, EndBrowsing(b) PROVE KnownWasHeard'
  BY <1>8 DEF EndBrowsing, Ready
<1>9. ASSUME NEW b \in Browsers, NEW l \in Listeners, AddListener(b, l)
      PROVE KnownWasHeard'
  BY <1>9 DEF AddListener
<1>10. ASSUME NEW b \in Browsers, NEW l \in Listeners, RemoveListener(b, l)
      PROVE KnownWasHeard'
  BY <1>10 DEF RemoveListener
<1>11. ASSUME NEW b \in Browsers, Browse(b) PROVE KnownWasHeard'
  BY <1>11 DEF Browse, Ready
<1>12. ASSUME NEW b \in Browsers, Discover(b) PROVE KnownWasHeard'
  BY <1>12 DEF Discover, Ready
<1>13. ASSUME NEW b \in Browsers, Acquire(b) PROVE KnownWasHeard'
  BY <1>13 DEF Acquire
<1>14. ASSUME NEW b \in Browsers, CopyInstance(b) PROVE KnownWasHeard'
  BY <1>14 DEF CopyInstance
<1>15. ASSUME NEW b \in Browsers, CopyDone(b) PROVE KnownWasHeard'
  BY <1>15 DEF CopyDone
<1>16. ASSUME NEW b \in Browsers, NotifyAdded(b) PROVE KnownWasHeard'
  <2>1. PICK i \in diff[b] \ known[b] :
          /\ known' = [known EXCEPT ![b] = @ \cup {i}]
          /\ heard' = [heard EXCEPT ![b][i] = name[i]]
          /\ again' = [again EXCEPT ![b] = @ \ {i}]
    BY <1>16 DEF NotifyAdded
  <2>2. i \in instances
    BY <1>16, <2>1 DEF ReportsExactly, SymmetricDifference, NotifyAdded
  <2>3. name[i] \in Names
    BY <2>2 DEF DirectorySound
  <2> QED
    BY <1>16, <2>1, <2>2, <2>3 DEF NotifyAdded
<1>17. ASSUME NEW b \in Browsers, NEW n \in Names \cup {Empty}, NotifyRemoved(b, n)
      PROVE KnownWasHeard'
  BY <1>17 DEF NotifyRemoved
<1>18. ASSUME NEW b \in Browsers, Release(b) PROVE KnownWasHeard'
  BY <1>18 DEF Release
<1>19. ASSUME UNCHANGED vars PROVE KnownWasHeard'
  BY <1>19 DEF vars
<1> QED
  BY <1>1, <1>2, <1>3, <1>4, <1>5, <1>6, <1>7, <1>8, <1>9, <1>10, <1>11, <1>12,
     <1>13, <1>14, <1>15, <1>16, <1>17, <1>18, <1>19
     DEF Next, Call, BrowserCall, Progress, BrowseStep

(* The invariant holds of every reachable state of the test driver.        *)
THEOREM Invariance == Spec => []Inv
<1>1. Init => Inv
  BY DEF Init, Inv, TypeOK, DirectorySound, MutexHeld, BrowsePicture, ReportsExactly,
         KnownWasHeard, Silence, Locations, Entries, NoInstances
<1>2. Inv /\ [Next]_vars => Inv'
  BY TypeStep, DirectoryStep, MutexStep, PictureStep, ReportStep, HeardStep DEF Inv
<1> QED
  BY <1>1, <1>2, PTL DEF Spec

(* Every pointer in the global directory is a living, named, announced     *)
(* object, whatever the number of threads: browse() never dereferences a   *)
(* destroyed object while it copies.                                       *)
THEOREM DirectoryIsSound == Spec => []DirectorySound
<1>1. Inv => DirectorySound
  BY DEF Inv
<1> QED
  BY <1>1, Invariance, PTL

(* At the end of every browse() the listeners have heard of every object   *)
(* in the directory under its name, and of no other, whatever the number   *)
(* of threads, sessions and arrivals before; only an object that was       *)
(* announced again after it was reported may go by an old name.            *)
THEOREM ListenersAreUpToDate == Spec => []ListenersUpToDate
<1>1. Inv => ListenersUpToDate
  BY DEF Inv, TypeOK, ListenersUpToDate, ReportsExactly, KnownWasHeard,
         SymmetricDifference, Published
<1> QED
  BY <1>1, Invariance, PTL

(* browse() copies the announced instances completely and exactly.         *)
THEOREM PictureIsExact == Spec => []BrowsePicture
<1>1. Inv => BrowsePicture
  BY DEF Inv
<1> QED
  BY <1>1, Invariance, PTL

(* A callback finds the instance it is told of in the browser's map.       *)
THEOREM CallbacksAreServed == Spec => []CallbackSeesInstance
<1>1. Inv => CallbackSeesInstance
  BY DEF Inv, CallbackSeesInstance, ReportsExactly, BrowsePicture, SymmetricDifference,
         AnnouncedNames
<1> QED
  BY <1>1, Invariance, PTL

-----------------------------------------------------------------------------
(* A call that touches neither the directory nor a map is a stutter of the *)
(* abstract directory.                                                     *)
LEMMA Stutter ==
  ASSUME UNCHANGED <<name, instances, imap>>,
         \A o \in Objects : pc[o] = "copy" <=> pc'[o] = "copy"
  PROVE  UNCHANGED Abstract!vars
BY DEF Abstract!vars, Published, View, Instances, AnnouncedNames

(* The names in the abstract directory are the names of the announced.     *)
LEMMA AbstractNames == Inv => Abstract!Announced = AnnouncedNames
BY DEF Inv, TypeOK, DirectorySound, Abstract!Announced, Published, AnnouncedNames

(* Each step of the test driver is a step of the abstract directory: a     *)
(* browse takes effect when it gets the mutex, the rest of it is invisible.*)
LEMMA StepRefines == Inv /\ Inv' /\ [Next]_vars => [Abstract!Next]_Abstract!vars
<1> SUFFICES ASSUME Inv, Inv', [Next]_vars PROVE [Abstract!Next]_Abstract!vars
  OBVIOUS
<1> USE DEF api, local, story
<1>0. TypeOK /\ MutexHeld /\ DirectorySound
  BY DEF Inv
<1>1. ASSUME NEW o \in Objects, Create(o) PROVE UNCHANGED Abstract!vars
  BY <1>1, Stutter DEF Create
<1>2. ASSUME NEW o \in Objects, NEW n \in Names \cup {Empty}, Announce(o, n)
      PROVE Abstract!Next
  <2>1. View' = View
    <3>1. \A p \in Objects : pc[p] # "copy" /\ pc'[p] # "copy"
      BY <1>0, <1>2 DEF Announce, MutexHeld
    <3> QED
      BY <1>2, <3>1 DEF Announce, View, Instances
  <2>2. Published' = [Published EXCEPT ![o] = name'[o]]
    BY <1>0, <1>2 DEF Announce, Published, TypeOK
  <2>3. name'[o] \in Names
    BY <1>0, <1>2 DEF Announce, TypeOK
  <2> QED
    BY <2>1, <2>2, <2>3 DEF Abstract!Next, Abstract!Announce
<1>3. ASSUME NEW o \in Objects, Withdraw(o) PROVE Abstract!Next
  <2>1. View' = View
    <3>1. \A p \in Objects : pc[p] # "copy" /\ pc'[p] # "copy"
      BY <1>0, <1>3 DEF Withdraw, MutexHeld
    <3> QED
      BY <1>3, <3>1 DEF Withdraw, View, Instances
  <2>2. Published' = [Published EXCEPT ![o] = Empty]
    BY <1>0, <1>3 DEF Withdraw, Published, TypeOK
  <2> QED
    BY <2>1, <2>2 DEF Abstract!Next, Abstract!Withdraw
<1>4. ASSUME NEW o \in Objects, Destroy(o) PROVE Abstract!Next
  <2>1. View' = [View EXCEPT ![o] = {}]
    <3>1. \A p \in Objects : pc[p] # "copy" /\ pc'[p] # "copy"
      BY <1>0, <1>4 DEF Destroy, MutexHeld
    <3>2. Instances(o)' = {}
      BY <1>0, <1>4 DEF Destroy, TypeOK, Instances, NoInstances
    <3>3. \A p \in Objects : p # o => Instances(p)' = Instances(p)
      BY <1>0, <1>4 DEF Destroy, TypeOK, Instances
    <3> QED
      BY <3>1, <3>2, <3>3 DEF View
  <2>2. Published' = [Published EXCEPT ![o] = Empty]
    BY <1>0, <1>4 DEF Destroy, Published, TypeOK
  <2> QED
    BY <2>1, <2>2 DEF Abstract!Next, Abstract!Destroy
<1>5. ASSUME NEW o \in Objects, NEW d \in Data, Set(o, d)
      PROVE UNCHANGED Abstract!vars
  BY <1>0, <1>5, Stutter DEF Set, Ready, TypeOK
<1>6. ASSUME NEW o \in Objects, SetReturn(o) PROVE UNCHANGED Abstract!vars
  BY <1>0, <1>6, Stutter DEF SetReturn, TypeOK
<1>7. ASSUME NEW b \in Browsers, BrowserCall(b) PROVE UNCHANGED Abstract!vars
  BY <1>0, <1>7, Stutter DEF BrowserCall, BeginBrowsing, EndBrowsing, AddListener,
     RemoveListener, Discover, Ready, TypeOK
<1>8. ASSUME NEW b \in Browsers, Browse(b) PROVE UNCHANGED Abstract!vars
  BY <1>0, <1>8, Stutter DEF Browse, Ready, TypeOK
<1>9. ASSUME NEW b \in Browsers, Acquire(b) PROVE Abstract!Next
  <2>1. Published' = Published
    BY <1>9 DEF Acquire, Published
  <2>2. View' = [View EXCEPT ![b] = AnnouncedNames]
    <3>1. \A o \in Objects : o # b => pc[o] # "copy" /\ pc'[o] # "copy"
      BY <1>0, <1>9 DEF Acquire, MutexHeld, TypeOK
    <3>2. \A o \in Objects : o # b => Instances(o)' = Instances(o)
      BY <1>0, <1>9 DEF Acquire, Instances, TypeOK
    <3>3. pc'[b] = "copy" /\ AnnouncedNames' = AnnouncedNames
      BY <1>0, <1>9 DEF Acquire, AnnouncedNames, TypeOK
    <3> QED
      BY <3>1, <3>2, <3>3 DEF View
  <2> QED
    BY <2>1, <2>2, AbstractNames DEF Abstract!Next, Abstract!Browse
<1>10. ASSUME NEW b \in Browsers, CopyInstance(b) PROVE UNCHANGED Abstract!vars
  <2>1. UNCHANGED <<name, instances, pc>> /\ pc[b] = "copy"
    BY <1>10 DEF CopyInstance
  <2>2. \A o \in Objects : o # b => Instances(o)' = Instances(o)
    <3>1. \E i \in Objects, d \in Entries : imap' = [imap EXCEPT ![b][name[i]] = d]
      BY <1>0, <1>10 DEF CopyInstance, TypeOK, ReadData, Entries
    <3> QED
      BY <1>0, <3>1 DEF Instances, TypeOK
  <2> QED
    BY <2>1, <2>2 DEF Abstract!vars, Published, View, AnnouncedNames
<1>11. ASSUME NEW b \in Browsers, CopyDone(b) PROVE UNCHANGED Abstract!vars
  <2>1. UNCHANGED <<name, instances, imap>>
    BY <1>11 DEF CopyDone
  <2>2. Instances(b) = AnnouncedNames
    BY <1>0, <1>11 DEF CopyDone, Inv, BrowsePicture, AnnouncedNames
  <2>3. /\ pc[b] = "copy" /\ pc'[b] # "copy"
        /\ \A o \in Objects : o # b => pc'[o] = pc[o]
    BY <1>0, <1>11 DEF CopyDone, TypeOK
  <2> QED
    BY <2>1, <2>2, <2>3 DEF Abstract!vars, Published, View, AnnouncedNames, Instances
<1>12. ASSUME NEW b \in Browsers, NotifyAdded(b) PROVE UNCHANGED Abstract!vars
  BY <1>12, Stutter DEF NotifyAdded
<1>13. ASSUME NEW b \in Browsers, NEW n \in Names \cup {Empty}, NotifyRemoved(b, n)
       PROVE UNCHANGED Abstract!vars
  BY <1>13, Stutter DEF NotifyRemoved
<1>14. ASSUME NEW b \in Browsers, Release(b) PROVE UNCHANGED Abstract!vars
  BY <1>0, <1>14, Stutter DEF Release, TypeOK
<1>15. ASSUME UNCHANGED vars PROVE UNCHANGED Abstract!vars
  BY <1>15, Stutter DEF vars
<1> QED
  BY <1>1, <1>2, <1>3, <1>4, <1>5, <1>6, <1>7, <1>8, <1>9, <1>10, <1>11, <1>12,
     <1>13, <1>14, <1>15 DEF Next, Call, Progress, BrowseStep

(* The test driver implements the abstract directory: what getInstances()  *)
(* returns is the announced names at one moment of the last browse().      *)
THEOREM Refinement == Spec => RefinesDirectory
<1>1. Init => Abstract!Init
  BY DEF Init, Abstract!Init, Published, View, Instances, NoInstances
<1> QED
  BY <1>1, Invariance, StepRefines, PTL DEF Spec, RefinesDirectory, Abstract!Spec
=============================================================================
