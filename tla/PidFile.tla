-------------------------------- MODULE PidFile --------------------------------
(***************************************************************************)
(* util_write_pid_file() and the exit handler it installs (src/src/util.c),  *)
(* for several instances of ezstream that were given the same path.  Every  *)
(* call into the kernel is a step.  A lock belongs to an open file, and the *)
(* encoders and programs an instance runs inherit that open file.           *)
(*                                                                          *)
(* main() calls util_write_pid_file() once, so at the call there is no file *)
(* of an earlier call to close and the exit handler is not yet installed.   *)
(***************************************************************************)
CONSTANTS Procs,     \* the instances
          Files,     \* files there have been at the path
          NoProc,    \* the content of an empty file
          NoFile     \* no file; a NULL FILE pointer

ASSUME PidFileAssumption ==
  NoProc \notin Procs /\ NoFile \notin Files

VARIABLES
  pc,
  path,      \* the file the path leads to
  content,   \* the pid in each file
  fd,        \* pidfile_file
  locked,    \* it is locked through this open file
  named,     \* pidfile_path # NULL
  child,     \* the locked file that a program run by the instance inherited
  crashed    \* an instance was killed
vars == <<pc, path, content, fd, locked, named, child, crashed>>

Points == {"start", "open", "write", "lock", "unlink", "close",
           "running", "exit_unlink", "exit_close", "gone"}

Init ==
  /\ pc = [p \in Procs |-> "start"]
  /\ path = NoFile /\ content = [f \in Files |-> NoProc]
  /\ fd = [p \in Procs |-> NoFile] /\ child = [p \in Procs |-> NoFile]
  /\ locked = [p \in Procs |-> FALSE]
  /\ named = [p \in Procs |-> FALSE]
  /\ crashed = FALSE

Goto(p, from, to) == pc[p] = from /\ pc' = [pc EXCEPT ![p] = to]

InUse(f) == path = f \/ \E p \in Procs : fd[p] = f \/ child[p] = f

Locked(f) == \E p \in Procs : (locked[p] /\ fd[p] = f) \/ child[p] = f

CloseFd(p) ==
  /\ fd' = [fd EXCEPT ![p] = NoFile]
  /\ locked' = [locked EXCEPT ![p] = FALSE]

--------------------------------------------------------------------------------
(* util_write_pid_file() *)

Call(p) ==
  /\ Goto(p, "start", "open")
  /\ named' = [named EXCEPT ![p] = TRUE]
  /\ UNCHANGED <<path, content, fd, locked, child, crashed>>

\* fopen() empties a file that is there, whoever locked it, or creates one.
Open(p) ==
  /\ Goto(p, "open", "write")
  /\ \E f \in IF path # NoFile THEN {path} ELSE {g \in Files : ~InUse(g)} :
       /\ path' = f
       /\ content' = [content EXCEPT ![f] = NoProc]
       /\ fd' = [fd EXCEPT ![p] = f]
  /\ UNCHANGED <<locked, named, child, crashed>>

\* Mutant: the error path of the later calls is taken, which closes the file.
OpenFails_Error(p) ==
  /\ Goto(p, "open", "unlink")
  /\ UNCHANGED <<path, content, fd, locked, named, child, crashed>>

OpenFails(p) ==
  /\ Goto(p, "open", "running")
  /\ named' = [named EXCEPT ![p] = FALSE]
  /\ UNCHANGED <<path, content, fd, locked, child, crashed>>

Write(p) ==
  /\ Goto(p, "write", "lock")
  /\ content' = [content EXCEPT ![fd[p]] = p]
  /\ UNCHANGED <<path, fd, locked, named, child, crashed>>

WriteFails(p) ==
  /\ Goto(p, "write", "unlink")
  /\ UNCHANGED <<path, content, fd, locked, named, child, crashed>>

\* Mutant: a lock of somebody else is taken over.
Lock_Shared(p) ==
  /\ Goto(p, "lock", "running")
  /\ locked' = [locked EXCEPT ![p] = TRUE]
  /\ UNCHANGED <<path, content, fd, named, child, crashed>>

\* The lock is there, the pid is recorded, the exit handler installed.
Lock(p) ==
  /\ Goto(p, "lock", "running") /\ ~Locked(fd[p])
  /\ locked' = [locked EXCEPT ![p] = TRUE]
  /\ UNCHANGED <<path, content, fd, named, child, crashed>>

LockFails(p) ==
  /\ Goto(p, "lock", "unlink") /\ Locked(fd[p])
  /\ UNCHANGED <<path, content, fd, locked, named, child, crashed>>

\* atexit() fails, with the lock held.
HookFails(p) ==
  /\ Goto(p, "lock", "unlink") /\ ~Locked(fd[p])
  /\ locked' = [locked EXCEPT ![p] = TRUE]
  /\ UNCHANGED <<path, content, fd, named, child, crashed>>

\* Mutant: the file is left behind.
Unlink_Not(p) ==
  /\ Goto(p, "unlink", "close")
  /\ UNCHANGED <<path, content, fd, locked, named, child, crashed>>

\* Whatever is at the path now is removed.
Unlink(p) ==
  /\ Goto(p, "unlink", "close")
  /\ path' = NoFile
  /\ UNCHANGED <<content, fd, locked, named, child, crashed>>

Close(p) ==
  /\ Goto(p, "close", "running")
  /\ CloseFd(p)
  /\ named' = [named EXCEPT ![p] = FALSE]
  /\ UNCHANGED <<path, content, child, crashed>>

--------------------------------------------------------------------------------
(* _util_cleanup_pidfile(), and the end of the process. *)

Exit(p) ==
  /\ Goto(p, "running", IF named[p] THEN "exit_unlink" ELSE "exit_close")
  /\ UNCHANGED <<path, content, fd, locked, named, child, crashed>>

ExitUnlink(p) ==
  /\ Goto(p, "exit_unlink", "exit_close")
  /\ path' = NoFile
  /\ UNCHANGED <<content, fd, locked, named, child, crashed>>

ExitClose(p) ==
  /\ Goto(p, "exit_close", "gone")
  /\ CloseFd(p)
  /\ UNCHANGED <<path, content, named, child, crashed>>

Kill(p) ==
  /\ pc[p] # "gone" /\ pc' = [pc EXCEPT ![p] = "gone"]
  /\ CloseFd(p)
  /\ crashed' = TRUE
  /\ UNCHANGED <<path, content, named, child>>

\* popen(): the program inherits the open file, and may outlive the instance.
Popen(p) ==
  /\ pc[p] = "running" /\ locked[p] /\ child[p] = NoFile
  /\ child' = [child EXCEPT ![p] = fd[p]]
  /\ UNCHANGED <<pc, path, content, fd, locked, named, crashed>>

ChildEnds(p) ==
  /\ child[p] # NoFile
  /\ child' = [child EXCEPT ![p] = NoFile]
  /\ UNCHANGED <<pc, path, content, fd, locked, named, crashed>>

Next ==
  \E p \in Procs :
    \/ Call(p) \/ Open(p) \/ OpenFails(p) \/ Write(p) \/ WriteFails(p)
    \/ Lock(p) \/ LockFails(p) \/ HookFails(p) \/ Unlink(p) \/ Close(p)
    \/ Exit(p) \/ ExitUnlink(p) \/ ExitClose(p)
    \/ Kill(p) \/ Popen(p) \/ ChildEnds(p)

Spec == Init /\ [][Next]_vars

--------------------------------------------------------------------------------
(* Properties. *)

\* The type invariant; a file that is written, locked or closed is open.
TypeOK ==
  /\ pc \in [Procs -> Points]
  /\ path \in Files \cup {NoFile}
  /\ content \in [Files -> Procs \cup {NoProc}]
  /\ fd \in [Procs -> Files \cup {NoFile}]
  /\ child \in [Procs -> Files \cup {NoFile}]
  /\ locked \in [Procs -> BOOLEAN] /\ named \in [Procs -> BOOLEAN]
  /\ crashed \in BOOLEAN
  /\ \A p \in Procs :
       pc[p] \in {"write", "lock", "unlink", "close"} => fd[p] # NoFile

AtRest == \A p \in Procs : pc[p] \in {"start", "running", "gone"}

Announced(p) == pc[p] = "running" /\ named[p]

\* Instances that start, fail and end in each other's way may remove a file too
\* many, but unless one is killed they leave none that is wrong: once they have
\* come to rest, a file at the path names a running instance that locked it.
RestingFileIsRight ==
  AtRest /\ ~crashed /\ path # NoFile =>
    \E p \in Procs :
      Announced(p) /\ locked[p] /\ fd[p] = path /\ content[path] = p

\* An instance that was told that its pid file is written and locked holds that
\* lock alone, whatever became of the name of the file.
LockIsOwn ==
  \A p \in Procs : Announced(p) =>
    /\ locked[p] /\ fd[p] # NoFile
    /\ \A q \in Procs \ {p} : child[q] # fd[p] /\ ~(locked[q] /\ fd[q] = fd[p])

\* "A file lock is maintained until the main ezstream process terminates"
\* (doc/ezstream.1.in.in:53-56): the file at the path is the locked one.
FileStaysLocked ==
  \A p \in Procs : Announced(p) => path = fd[p]
================================================================================
