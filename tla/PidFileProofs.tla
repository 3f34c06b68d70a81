----------------------------- MODULE PidFileProofs -----------------------------
(***************************************************************************)
(* Proofs about PidFile for any number of instances.                        *)
(***************************************************************************)
EXTENDS PidFile, TLAPS

\* What an instance has in its hands at each point of the call.
Stages ==
  \A p \in Procs :
    /\ locked[p] => fd[p] \in Files /\ pc[p] \notin {"start", "open", "write", "lock"}
    /\ pc[p] \in {"open", "write", "lock"} => named[p]
    /\ Announced(p) => locked[p]

Holds(p, f) == (locked[p] /\ fd[p] = f) \/ child[p] = f

\* flock() and inheritance: one instance, with its programs, per locked file.
OneHolder ==
  \A p, q \in Procs, f \in Files : Holds(p, f) /\ Holds(q, f) => p = q

\* Somebody will remove whatever is at the path by then.
Doomed == \E p \in Procs : pc[p] \in {"unlink", "exit_unlink"}

\* An instance has emptied the file at the path and not yet written to it.
BeingWritten == \E p \in Procs : pc[p] = "write" /\ fd[p] = path

\* The instance that wrote last is about to lock the file, or has locked it.
NamesTaker ==
  \E p \in Procs :
    /\ content[path] = p /\ fd[p] = path
    /\ pc[p] = "lock" \/ (Announced(p) /\ locked[p])

Accounted ==
  ~crashed /\ path # NoFile => Doomed \/ BeingWritten \/ NamesTaker

IInv == TypeOK /\ Stages /\ OneHolder /\ Accounted

--------------------------------------------------------------------------------
\* At first nobody holds anything and the path leads nowhere.
LEMMA InitIInv == Init => IInv
BY PidFileAssumption
   DEF Init, IInv, TypeOK, Points, Stages, Announced, OneHolder, Holds, Accounted

\* Each call into the kernel keeps the types.
LEMMA NextTypeOK == TypeOK /\ [Next]_vars => TypeOK'
<1> SUFFICES ASSUME TypeOK, [Next]_vars PROVE TypeOK'
  OBVIOUS
<1> USE PidFileAssumption DEF TypeOK, Points, Goto, CloseFd
<1>1. CASE UNCHANGED vars
  BY <1>1 DEF vars
<1>2. ASSUME NEW p \in Procs, Call(p) PROVE TypeOK'
  BY <1>2 DEF Call
<1>3. ASSUME NEW p \in Procs, Open(p) PROVE TypeOK'
  BY <1>3 DEF Open
<1>4. ASSUME NEW p \in Procs, OpenFails(p) PROVE TypeOK'
  BY <1>4 DEF OpenFails
<1>5. ASSUME NEW p \in Procs, Write(p) PROVE TypeOK'
  BY <1>5 DEF Write
<1>6. ASSUME NEW p \in Procs, WriteFails(p) PROVE TypeOK'
  BY <1>6 DEF WriteFails
<1>7. ASSUME NEW p \in Procs, Lock(p) PROVE TypeOK'
  BY <1>7 DEF Lock
<1>8. ASSUME NEW p \in Procs, LockFails(p) PROVE TypeOK'
  BY <1>8 DEF LockFails
<1>9. ASSUME NEW p \in Procs, HookFails(p) PROVE TypeOK'
  BY <1>9 DEF HookFails
<1>10. ASSUME NEW p \in Procs, Unlink(p) PROVE TypeOK'
  BY <1>10 DEF Unlink
<1>11. ASSUME NEW p \in Procs, Close(p) PROVE TypeOK'
  BY <1>11 DEF Close
<1>12. ASSUME NEW p \in Procs, Exit(p) PROVE TypeOK'
  BY <1>12 DEF Exit
<1>13. ASSUME NEW p \in Procs, ExitUnlink(p) PROVE TypeOK'
  BY <1>13 DEF ExitUnlink
<1>14. ASSUME NEW p \in Procs, ExitClose(p) PROVE TypeOK'
  BY <1>14 DEF ExitClose
<1>15. ASSUME NEW p \in Procs, Kill(p) PROVE TypeOK'
  BY <1>15 DEF Kill
<1>16. ASSUME NEW p \in Procs, Popen(p) PROVE TypeOK'
  BY <1>16 DEF Popen
<1>17. ASSUME NEW p \in Procs, ChildEnds(p) PROVE TypeOK'
  BY <1>17 DEF ChildEnds
<1> QED
  BY <1>1, <1>2, <1>3, <1>4, <1>5, <1>6, <1>7, <1>8, <1>9, <1>10, <1>11, <1>12,
     <1>13, <1>14, <1>15, <1>16, <1>17 DEF Next

\* A lock is taken on a file that is open, and given up with it.
LEMMA NextStages == (TypeOK /\ Stages) /\ [Next]_vars => Stages'
<1> SUFFICES ASSUME (TypeOK /\ Stages), [Next]_vars PROVE Stages'
  OBVIOUS
<1> USE PidFileAssumption DEF TypeOK, Stages, Announced, Points, Goto, CloseFd
<1>1. CASE UNCHANGED vars
  BY <1>1 DEF vars
<1>2. ASSUME NEW p \in Procs, Call(p) PROVE Stages'
  BY <1>2 DEF Call
<1>3. ASSUME NEW p \in Procs, Open(p) PROVE Stages'
  BY <1>3 DEF Open
<1>4. ASSUME NEW p \in Procs, OpenFails(p) PROVE Stages'
  BY <1>4 DEF OpenFails
<1>5. ASSUME NEW p \in Procs, Write(p) PROVE Stages'
  BY <1>5 DEF Write
<1>6. ASSUME NEW p \in Procs, WriteFails(p) PROVE Stages'
  BY <1>6 DEF WriteFails
<1>7. ASSUME NEW p \in Procs, Lock(p) PROVE Stages'
  BY <1>7 DEF Lock
<1>8. ASSUME NEW p \in Procs, LockFails(p) PROVE Stages'
  BY <1>8 DEF LockFails
<1>9. ASSUME NEW p \in Procs, HookFails(p) PROVE Stages'
  BY <1>9 DEF HookFails
<1>10. ASSUME NEW p \in Procs, Unlink(p) PROVE Stages'
  BY <1>10 DEF Unlink
<1>11. ASSUME NEW p \in Procs, Close(p) PROVE Stages'
  BY <1>11 DEF Close
<1>12. ASSUME NEW p \in Procs, Exit(p) PROVE Stages'
  BY <1>12 DEF Exit
<1>13. ASSUME NEW p \in Procs, ExitUnlink(p) PROVE Stages'
  BY <1>13 DEF ExitUnlink
<1>14. ASSUME NEW p \in Procs, ExitClose(p) PROVE Stages'
  BY <1>14 DEF ExitClose
<1>15. ASSUME NEW p \in Procs, Kill(p) PROVE Stages'
  BY <1>15 DEF Kill
<1>16. ASSUME NEW p \in Procs, Popen(p) PROVE Stages'
  BY <1>16 DEF Popen
<1>17. ASSUME NEW p \in Procs, ChildEnds(p) PROVE Stages'
  BY <1>17 DEF ChildEnds
<1> QED
  BY <1>1, <1>2, <1>3, <1>4, <1>5, <1>6, <1>7, <1>8, <1>9, <1>10, <1>11, <1>12,
     <1>13, <1>14, <1>15, <1>16, <1>17 DEF Next

\* Only Lock takes a lock, from nobody; a program inherits it from its own instance.
LEMMA NextOneHolder == (TypeOK /\ Stages /\ OneHolder) /\ [Next]_vars => OneHolder'
<1> SUFFICES ASSUME (TypeOK /\ Stages /\ OneHolder), [Next]_vars PROVE OneHolder'
  OBVIOUS
<1> USE PidFileAssumption DEF TypeOK, Stages, OneHolder, Holds, Points, Goto, CloseFd
<1>1. CASE UNCHANGED vars
  BY <1>1 DEF vars
<1>2. ASSUME NEW p \in Procs, Call(p) PROVE OneHolder'
  BY <1>2 DEF Call
<1>3. ASSUME NEW p \in Procs, Open(p) PROVE OneHolder'
  BY <1>3 DEF Open
<1>4. ASSUME NEW p \in Procs, OpenFails(p) PROVE OneHolder'
  BY <1>4 DEF OpenFails
<1>5. ASSUME NEW p \in Procs, Write(p) PROVE OneHolder'
  BY <1>5 DEF Write
<1>6. ASSUME NEW p \in Procs, WriteFails(p) PROVE OneHolder'
  BY <1>6 DEF WriteFails
<1>7. ASSUME NEW p \in Procs, Lock(p) PROVE OneHolder'
  <2>1. \A q \in Procs : ~Holds(q, fd[p])
    BY <1>7 DEF Lock, Locked
  <2>2. \A q \in Procs, f \in Files :
          Holds(q, f)' => Holds(q, f) \/ (q = p /\ f = fd[p])
    BY <1>7 DEF Lock
  <2> HIDE DEF Holds
  <2> QED BY <2>1, <2>2
<1>8. ASSUME NEW p \in Procs, LockFails(p) PROVE OneHolder'
  BY <1>8 DEF LockFails
<1>9. ASSUME NEW p \in Procs, HookFails(p) PROVE OneHolder'
  <2>1. \A q \in Procs : ~Holds(q, fd[p])
    BY <1>9 DEF HookFails, Locked
  <2>2. \A q \in Procs, f \in Files :
          Holds(q, f)' => Holds(q, f) \/ (q = p /\ f = fd[p])
    BY <1>9 DEF HookFails
  <2> HIDE DEF Holds
  <2> QED BY <2>1, <2>2
<1>10. ASSUME NEW p \in Procs, Unlink(p) PROVE OneHolder'
  BY <1>10 DEF Unlink
<1>11. ASSUME NEW p \in Procs, Close(p) PROVE OneHolder'
  BY <1>11 DEF Close
<1>12. ASSUME NEW p \in Procs, Exit(p) PROVE OneHolder'
  BY <1>12 DEF Exit
<1>13. ASSUME NEW p \in Procs, ExitUnlink(p) PROVE OneHolder'
  BY <1>13 DEF ExitUnlink
<1>14. ASSUME NEW p \in Procs, ExitClose(p) PROVE OneHolder'
  BY <1>14 DEF ExitClose
<1>15. ASSUME NEW p \in Procs, Kill(p) PROVE OneHolder'
  BY <1>15 DEF Kill
<1>16. ASSUME NEW p \in Procs, Popen(p) PROVE OneHolder'
  BY <1>16 DEF Popen
<1>17. ASSUME NEW p \in Procs, ChildEnds(p) PROVE OneHolder'
  BY <1>17 DEF ChildEnds
<1> QED
  BY <1>1, <1>2, <1>3, <1>4, <1>5, <1>6, <1>7, <1>8, <1>9, <1>10, <1>11, <1>12,
     <1>13, <1>14, <1>15, <1>16, <1>17 DEF Next

\* While nobody is killed, every file at the path is accounted for.
LEMMA NextAccounted == (TypeOK /\ Stages /\ Accounted) /\ [Next]_vars => Accounted'
<1> SUFFICES ASSUME (TypeOK /\ Stages /\ Accounted), [Next]_vars PROVE Accounted'
  OBVIOUS
<1> USE PidFileAssumption DEF TypeOK, Stages, Accounted, Doomed, BeingWritten, NamesTaker, Announced, Points, Goto, CloseFd
<1>1. CASE UNCHANGED vars
  BY <1>1 DEF vars
<1>2. ASSUME NEW p \in Procs, Call(p) PROVE Accounted'
  BY <1>2 DEF Call
<1>3. ASSUME NEW p \in Procs, Open(p) PROVE Accounted'
  BY <1>3 DEF Open
<1>4. ASSUME NEW p \in Procs, OpenFails(p) PROVE Accounted'
  BY <1>4 DEF OpenFails
<1>5. ASSUME NEW p \in Procs, Write(p) PROVE Accounted'
  BY <1>5 DEF Write
<1>6. ASSUME NEW p \in Procs, WriteFails(p) PROVE Accounted'
  BY <1>6 DEF WriteFails
<1>7. ASSUME NEW p \in Procs, Lock(p) PROVE Accounted'
  BY <1>7 DEF Lock
<1>8. ASSUME NEW p \in Procs, LockFails(p) PROVE Accounted'
  BY <1>8 DEF LockFails
<1>9. ASSUME NEW p \in Procs, HookFails(p) PROVE Accounted'
  BY <1>9 DEF HookFails
<1>10. ASSUME NEW p \in Procs, Unlink(p) PROVE Accounted'
  BY <1>10 DEF Unlink
<1>11. ASSUME NEW p \in Procs, Close(p) PROVE Accounted'
  BY <1>11 DEF Close
<1>12. ASSUME NEW p \in Procs, Exit(p) PROVE Accounted'
  BY <1>12 DEF Exit
<1>13. ASSUME NEW p \in Procs, ExitUnlink(p) PROVE Accounted'
  BY <1>13 DEF ExitUnlink
<1>14. ASSUME NEW p \in Procs, ExitClose(p) PROVE Accounted'
  BY <1>14 DEF ExitClose
<1>15. ASSUME NEW p \in Procs, Kill(p) PROVE Accounted'
  BY <1>15 DEF Kill
<1>16. ASSUME NEW p \in Procs, Popen(p) PROVE Accounted'
  BY <1>16 DEF Popen
<1>17. ASSUME NEW p \in Procs, ChildEnds(p) PROVE Accounted'
  BY <1>17 DEF ChildEnds
<1> QED
  BY <1>1, <1>2, <1>3, <1>4, <1>5, <1>6, <1>7, <1>8, <1>9, <1>10, <1>11, <1>12,
     <1>13, <1>14, <1>15, <1>16, <1>17 DEF Next

\* The invariant is inductive.
LEMMA Invariance == Spec => []IInv
<1>1. IInv /\ [Next]_vars => IInv'
  BY NextTypeOK, NextStages, NextOneHolder, NextAccounted DEF IInv
<1> QED BY InitIInv, <1>1, PTL DEF Spec

\* Every variable keeps its type, for any set of instances.
THEOREM TypeCorrect == Spec => []TypeOK
<1>1. IInv => TypeOK
  BY DEF IInv
<1> QED BY Invariance, <1>1, PTL

\* Whatever any number of instances do to each other's pid file, one that was told
\* of success holds the lock of its file, and holds it alone.
THEOREM LockStaysOwn == Spec => []LockIsOwn
<1>1. IInv => LockIsOwn
  <2> SUFFICES ASSUME IInv, NEW p \in Procs, Announced(p)
               PROVE  /\ locked[p] /\ fd[p] # NoFile
                      /\ \A q \in Procs \ {p} :
                           child[q] # fd[p] /\ ~(locked[q] /\ fd[q] = fd[p])
    BY DEF LockIsOwn
  <2>1. locked[p] /\ fd[p] \in Files
    BY DEF IInv, Stages
  <2>2. Holds(p, fd[p])
    BY <2>1 DEF Holds
  <2>3. \A q \in Procs \ {p} : ~Holds(q, fd[p])
    BY <2>1, <2>2 DEF IInv, OneHolder
  <2> QED BY <2>1, <2>3, PidFileAssumption DEF Holds
<1> QED BY Invariance, <1>1, PTL

\* Once any number of instances have come to rest and none was killed, the file at
\* the path, if there is one, names a running instance that holds its lock.
THEOREM RestingFileStaysRight == Spec => []RestingFileIsRight
<1>1. IInv => RestingFileIsRight
  BY DEF IInv, RestingFileIsRight, Accounted, Doomed, BeingWritten, NamesTaker, AtRest
<1> QED BY Invariance, <1>1, PTL
================================================================================
