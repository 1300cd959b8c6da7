-------------------------------- MODULE OsalLog --------------------------------
(***************************************************************************)
(* The log file of the user OSAL (user/osal/src/util/osal_log.c): threads    *)
(* that log, each of which checks the size of the file and rotates it, and    *)
(* threads that start the log up, shut it down and configure it.  A region    *)
(* under g_log_mutex or g_config_mutex is one step; what matters is that the  *)
(* size check and the rotation each let go of g_log_mutex in the middle.      *)
(*                                                                          *)
(* A file is known by its number: later files have larger ones.  Its size is  *)
(* the number of lines in it.                                                *)
(***************************************************************************)
EXTENDS Integers, FiniteSets

CONSTANTS
    Loggers,      \* threads that log
    Controllers,  \* threads that call init, shutdown and the setters
    Sizes,        \* values of g_max_log_size, in lines; the least is the default
    Counts,       \* values of g_max_log_files; the largest is the default
    MaxLines,     \* bound of the lines logged
    MaxInits      \* bound of the calls of osal_log_init

(* What the constants are; assumed by the module that instantiates this one. *)
LogAssumption ==
    /\ Sizes \subseteq Nat \ {0} /\ Sizes # {}
    /\ Counts \subseteq Nat \ {0} /\ \E n \in Counts : \A m \in Counts : n >= m
    /\ Loggers \intersect Controllers = {}
    /\ MaxLines \in Nat /\ MaxInits \in Nat

None == 0
DefaultSize == CHOOSE n \in Sizes : \A m \in Sizes : n <= m
DefaultCount == CHOOSE n \in Counts : \A m \in Counts : n >= m
Names == 0 .. DefaultCount      \* the file and its backups .1, .2, ...

VARIABLES
    state,      \* g_log_state
    path,       \* g_log_file_path is set
    file,       \* g_log_file
    open,       \* FILE objects that are open
    disk,       \* [Names -> file]
    size,       \* lines of the files made so far: [Nat -> Nat]
    maxSize, maxFiles,
    pc,
    seen,       \* [Loggers -> file_size in _check_and_rotate_log]
    lines, inits

configVars == <<maxSize, maxFiles>>
fileVars == <<path, file, open, disk, size>>
vars == <<state, fileVars, configVars, pc, seen, lines, inits>>

Files == DOMAIN size

Init ==
    /\ state = "uninitialized"
    /\ path = FALSE /\ file = None /\ open = 0
    /\ disk = [n \in Names |-> None]
    /\ size = [f \in {} |-> 0]
    /\ maxSize = DefaultSize /\ maxFiles = DefaultCount
    /\ pc = [t \in Loggers \union Controllers |-> "idle"]
    /\ seen = [t \in Loggers |-> 0]
    /\ lines = 0 /\ inits = 0

Goto(t, from, to) == pc[t] = from /\ pc' = [pc EXCEPT ![t] = to]

-----------------------------------------------------------------------------
(* osal_log_init: from "uninitialized" only; ...                            *)
InitStart(c) ==
    /\ state = "uninitialized" /\ inits < MaxInits
    /\ state' = "initializing"
    /\ Goto(c, "idle", "starting")
    /\ inits' = inits + 1
    /\ UNCHANGED <<fileVars, configVars, seen, lines>>

(* ... the configuration is reset, ...                                      *)
InitReset(c) ==
    /\ Goto(c, "starting", "opening")
    /\ maxSize' = DefaultSize /\ maxFiles' = DefaultCount
    /\ UNCHANGED <<state, fileVars, seen, lines, inits>>

(* fopen(path, "a"), on a disk d.                                           *)
Opens(d) ==
    LET f == IF d[0] = None THEN Cardinality(Files) + 1 ELSE d[0] IN
        /\ file' = f
        /\ disk' = [d EXCEPT ![0] = f]
        /\ open' = open + 1

(* ... the file is opened, if one is given, ...                             *)
InitOpen(c) ==
    /\ Goto(c, "opening", "opened")
    /\ \/ path' = FALSE /\ UNCHANGED <<file, open, disk, size>>
       \/ /\ path' = TRUE
          /\ Opens(disk)
          /\ size' = IF file' \in Files THEN size
                     ELSE [f \in Files \union {file'} |-> IF f \in Files THEN size[f] ELSE 0]
    /\ UNCHANGED <<state, configVars, seen, lines, inits>>

InitFails(c) ==
    /\ Goto(c, "opening", "idle")
    /\ path' = FALSE /\ file' = None
    /\ state' = "uninitialized"
    /\ UNCHANGED <<open, disk, size, configVars, seen, lines, inits>>

(* ... and the log is ready.                                                *)
InitReady(c) ==
    /\ Goto(c, "opened", "idle")
    /\ state' = "ready"
    /\ UNCHANGED <<fileVars, configVars, seen, lines, inits>>

(* osal_log_shutdown: the state first, ...                                  *)
ShutdownStart(c) ==
    /\ state # "uninitialized"
    /\ state' = "uninitialized"
    /\ Goto(c, "idle", "closing")
    /\ UNCHANGED <<fileVars, configVars, seen, lines, inits>>

(* A slip: the pointer outlives what it points to.                          *)
ShutdownCloseDangles(c) ==
    /\ Goto(c, "closing", "resetting")
    /\ open' = IF file # None THEN open - 1 ELSE open
    /\ path' = FALSE
    /\ UNCHANGED <<state, file, disk, size, configVars, seen, lines, inits>>

(* ... then the file, ...                                                   *)
ShutdownClose(c) ==
    /\ Goto(c, "closing", "resetting")
    /\ open' = IF file # None THEN open - 1 ELSE open
    /\ file' = None
    /\ path' = FALSE
    /\ UNCHANGED <<state, disk, size, configVars, seen, lines, inits>>

(* ... then the configuration.                                              *)
ShutdownReset(c) ==
    /\ Goto(c, "resetting", "idle")
    /\ maxSize' = DefaultSize /\ maxFiles' = DefaultCount
    /\ UNCHANGED <<state, fileVars, seen, lines, inits>>

(* osal_log_set_max_file_size, osal_log_set_max_files.                      *)
Configure(c) ==
    /\ pc[c] = "idle"
    /\ \/ maxSize' \in Sizes /\ UNCHANGED maxFiles
       \/ maxFiles' \in Counts /\ UNCHANGED maxSize
    /\ UNCHANGED <<state, fileVars, pc, seen, lines, inits>>

-----------------------------------------------------------------------------
(* osal_log, osal_log_emit, osal_log_structured: a message that is not       *)
(* filtered out, in a log that is ready.                                    *)
LogStart(t) ==
    /\ state = "ready" /\ lines < MaxLines
    /\ lines' = lines + 1
    /\ Goto(t, "idle", "check")
    /\ UNCHANGED <<state, fileVars, configVars, seen, inits>>

(* The line goes to the file if there is one.                               *)
PrintLine(f, s) == IF f = None THEN s ELSE [s EXCEPT ![f] = @ + 1]

(* _check_and_rotate_log looks at the size of the file and unlocks.         *)
Check(t) ==
    /\ pc[t] = "check"
    /\ IF file = None \/ ~path
       THEN /\ size' = PrintLine(file, size)
            /\ pc' = [pc EXCEPT ![t] = "idle"]
            /\ UNCHANGED seen
       ELSE /\ seen' = [seen EXCEPT ![t] = size[file]]
            /\ pc' = [pc EXCEPT ![t] = "decide"]
            /\ UNCHANGED size
    /\ UNCHANGED <<state, path, file, open, disk, configVars, lines, inits>>

(* With the limit it locks again and goes by the size it saw before;         *)
(* _rotate_log_file unlocks once more, to read the number of files.         *)
Decide(t) ==
    /\ pc[t] = "decide"
    /\ IF seen[t] > maxSize /\ path
       THEN pc' = [pc EXCEPT ![t] = "rotate"] /\ UNCHANGED size
       ELSE /\ size' = PrintLine(file, size)
            /\ pc' = [pc EXCEPT ![t] = "idle"]
    /\ seen' = [seen EXCEPT ![t] = 0]
    /\ UNCHANGED <<state, path, file, open, disk, configVars, lines, inits>>

(* .maxFiles is removed and each of the others moves to the next name, from  *)
(* the oldest on; there is no .0.  A removal or a move that fails is passed   *)
(* over: done are the names that could be removed or moved to.  A name is     *)
(* empty once its file has moved on and none has taken its place.            *)
Shift(d, done) ==
    [n \in Names |->
        IF n = maxFiles THEN IF n \in done THEN None ELSE d[n]
        ELSE IF n \in 2 .. maxFiles - 1 /\ n \in done /\ d[n - 1] # None THEN d[n - 1]
        ELSE IF n \in 1 .. maxFiles - 2 /\ n + 1 \in done THEN None
        ELSE d[n]]

(* The file is closed and, on a disk d, opened again or not, and the line is *)
(* written.                                                                 *)
Reopen(d) ==
    LET closed == IF file # None THEN open - 1 ELSE open
        f == IF d[0] = None THEN Cardinality(Files) + 1 ELSE d[0]
        s == IF f \in Files THEN size
             ELSE [g \in Files \union {f} |-> IF g \in Files THEN size[g] ELSE 0]
    IN  \/ file' = None /\ disk' = d /\ open' = closed /\ size' = size
        \/ /\ file' = f /\ disk' = [d EXCEPT ![0] = f]
           /\ open' = closed + 1
           /\ size' = PrintLine(f, PrintLine(f, s))   \* the header and the line

(* _rotate_log_file goes on, even after a shutdown has cleared the path; the *)
(* file becomes .1, if that rename does not fail too.                       *)
Rotate(t) ==
    /\ Goto(t, "rotate", "idle")
    /\ IF path
       THEN \E done \in SUBSET (1 .. maxFiles) :
               LET shifted == Shift(disk, done) IN
                   \/ Reopen([shifted EXCEPT ![1] = IF disk[0] = None THEN @ ELSE disk[0],
                                             ![0] = None])
                   \/ Reopen(shifted)
       ELSE /\ file' = None
            /\ open' = IF file # None THEN open - 1 ELSE open
            /\ UNCHANGED <<disk, size>>
    /\ UNCHANGED <<state, path, configVars, seen, lines, inits>>

Next ==
    \/ \E c \in Controllers :
          \/ InitStart(c) \/ InitReset(c) \/ InitOpen(c)
          \/ InitFails(c) \/ InitReady(c)
          \/ ShutdownStart(c) \/ ShutdownClose(c) \/ ShutdownReset(c)
          \/ Configure(c)
    \/ \E t \in Loggers : LogStart(t) \/ Check(t) \/ Decide(t) \/ Rotate(t)

Spec == Init /\ [][Next]_vars

-----------------------------------------------------------------------------
TypeOK ==
    /\ state \in {"uninitialized", "initializing", "ready"}
    /\ path \in BOOLEAN
    /\ file \in Files \union {None}
    /\ open \in Nat
    /\ disk \in [Names -> Files \union {None}]
    /\ Files = 1 .. Cardinality(Files) /\ \A f \in Files : size[f] \in Nat
    /\ maxSize \in Sizes /\ maxFiles \in Counts
    /\ lines \in 0 .. MaxLines /\ inits \in 0 .. MaxInits

(* Every FILE that is open is the log's: none is lost when the log is        *)
(* started again, none is closed twice when a rotation runs into a shutdown. *)
HandlesExact == open = IF file = None THEN 0 ELSE 1

(* A backup with a larger number is older, whatever number of files was set  *)
(* in between and whichever removals and renames failed (_rotate_log_file).  *)
BackupsOrdered ==
    \A m, n \in Names : m < n /\ disk[m] # None /\ disk[n] # None => disk[m] > disk[n]

(* _check_and_rotate_log: "checks the size of the log file and rotates it":  *)
(* what is rotated has grown past the limit.                                 *)
OnlyFullRotated == \A n \in Names \ {0} : disk[n] # None => size[disk[n]] > maxSize

(* osal_log_set_max_files: "the largest number of backup files": once more    *)
(* files were made than there may be backups, there are that many.           *)
AllBackupsKept ==
    Cardinality(Files) > maxFiles => \A n \in 1 .. maxFiles : disk[n] # None
=============================================================================
