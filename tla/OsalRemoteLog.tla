----------------------------- MODULE OsalRemoteLog -----------------------------
(***************************************************************************)
(* The user log besides its file (user/osal/src/util/osal_log.c): levels,      *)
(* sampling, the filter, the counters and the remote server.  Threads log       *)
(* while one controller starts the log, shuts it down and configures it.  A     *)
(* region under g_config_mutex or g_log_mutex is one step, and so is an atomic   *)
(* operation.  A descriptor that is closed can be given to another file of the  *)
(* process.                                                                   *)
(***************************************************************************)
EXTENDS Integers, FiniteSets

CONSTANTS
  Loggers,    (* threads that log                                              *)
  Calls,      (* what they call: "emit", "structured" or "plain" (osal_log)       *)
  Levels, Info,  (* levels of messages and of the log, and the one it begins with   *)
  Rates,      (* what osal_log_set_sampling is called with                       *)
  Fds,        (* descriptors                                                    *)
  Eager,      (* whether the controller also configures what is not started       *)
  Busy,       (* whether it reconfigures the server while others log              *)
  MaxCount    (* bound: messages judged                                          *)

None == -1
Controller == "controller"

RemoteLogAssumption ==
  /\ IsFiniteSet(Loggers) /\ Controller \notin Loggers
  /\ Calls \subseteq {"emit", "structured", "plain"}
  /\ Info \in Levels /\ Levels \subseteq Int
  /\ Rates \subseteq Nat \ {0} /\ Fds \subseteq Nat

VARIABLES
  state,      (* g_log_state                                                    *)
  level, rate, filter,  (* filter: g_log_filter_enabled                          *)
  counter, total, dropped,
  sock, enabled,        (* g_remote_log_socket and g_remote_log_enabled           *)
  fds,        (* [Fds -> "free", "server" or "other"]                            *)
  regexes,    (* compiled expressions not freed                                  *)
  pc, call, hand,       (* of each thread: where it is, in what call, the copied fd *)
  reached,    (* what sendto has reached                                         *)
  even        (* the rate since the counters were reset, or None if it changed     *)

configVars == <<rate, filter, sock, enabled, regexes, even>>
countVars == <<counter, total, dropped>>
vars == <<state, level, configVars, countVars, fds, pc, call, hand, reached>>

Quiet == \A t \in Loggers : pc[t] = "idle"
Goto(t, from, to) == pc[t] = from /\ pc' = [pc EXCEPT ![t] = to]
-------------------------------------------------------------------------------
(* osal_log, osal_log_emit and osal_log_structured: the state and the level are     *)
(* read without a lock.                                                        *)
Log(t, c, l) ==
  /\ state = "ready" /\ l >= level
  /\ counter < MaxCount
  /\ Goto(t, "idle", IF c = "plain" THEN "write" ELSE "count")
  /\ call' = [call EXCEPT ![t] = c]
  /\ UNCHANGED <<state, level, configVars, countVars, fds, hand, reached>>

(* _should_log_message: the message gets its number ...                           *)
Count(t) ==
  /\ Goto(t, "count", "judge")
  /\ counter' = counter + 1
  /\ hand' = [hand EXCEPT ![t] = counter']
  /\ UNCHANGED <<state, level, configVars, total, dropped, fds, call, reached>>

(* A slip: the number is that of whoever counted last. *)
JudgedByCounter(t) == counter % rate # 0

Sampled(t) == rate > 1 /\ hand[t] % rate # 0

(* ... and is judged by it, and by the filter, which matches some messages.         *)
Judge(t) ==
  /\ \E matches \in IF filter THEN BOOLEAN ELSE {TRUE} :
       Goto(t, "judge", IF Sampled(t) \/ ~matches THEN "drop" ELSE "keep")
  /\ UNCHANGED <<state, level, configVars, countVars, fds, call, hand, reached>>

(* The counters are written after g_config_mutex is released.                      *)
Drop(t) ==
  /\ Goto(t, "drop", "idle")
  /\ dropped' = dropped + 1
  /\ hand' = [hand EXCEPT ![t] = None]
  /\ UNCHANGED <<state, level, configVars, counter, total, fds, call, reached>>

Keep(t) ==
  /\ Goto(t, "keep", "write")
  /\ total' = total + 1
  /\ hand' = [hand EXCEPT ![t] = None]
  /\ UNCHANGED <<state, level, configVars, counter, dropped, fds, call, reached>>

(* Console and file, under g_log_mutex; osal_log is not sent to the server.          *)
Write(t) ==
  /\ Goto(t, "write", IF call[t] = "plain" THEN "idle" ELSE "copy")
  /\ UNCHANGED <<state, level, configVars, countVars, fds, call, hand, reached>>

(* _send_remote_log: the descriptor is copied ...                                  *)
Copy(t) ==
  /\ Goto(t, "copy", IF enabled /\ sock # None THEN "send" ELSE "idle")
  /\ hand' = [hand EXCEPT ![t] = IF enabled THEN sock ELSE None]
  /\ UNCHANGED <<state, level, configVars, countVars, fds, call, reached>>

(* ... and used without the lock.                                                *)
Send(t) ==
  /\ Goto(t, "send", "idle")
  /\ reached' = reached \cup {fds[hand[t]]}
  /\ hand' = [hand EXCEPT ![t] = None]
  /\ UNCHANGED <<state, level, configVars, countVars, fds, call>>
-------------------------------------------------------------------------------
(* The controller: what it may call now.                                         *)
Free == pc[Controller] = "idle"
Configures == Free /\ (state = "ready" \/ Eager)
Reconfigures == Configures /\ (Busy \/ Quiet)

(* A slip: what is freed stays on. *)
FilterFreedOnly == UNCHANGED filter /\ regexes' = regexes - 1

FilterCleared == filter' = FALSE /\ regexes' = regexes - (IF filter THEN 1 ELSE 0)

(* _reset_log_config_unlocked, which neither closes nor frees anything.              *)
Reset ==
  /\ counter' = 0 /\ total' = 0 /\ dropped' = 0
  /\ rate' = 1 /\ even' = 1
  /\ sock' = None /\ enabled' = FALSE

(* osal_log_init: from "uninitialized" only; the counters are reset meanwhile.        *)
InitStart(l) ==
  /\ state = "uninitialized" /\ Free
  /\ state' = "initializing"
  /\ level' = l
  /\ Goto(Controller, "idle", "reset")
  /\ UNCHANGED <<configVars, countVars, fds, call, hand, reached>>

InitReset ==
  /\ Busy \/ Quiet
  /\ Goto(Controller, "reset", "opened")
  /\ Reset
  /\ filter' = FALSE
  /\ UNCHANGED <<state, level, fds, regexes, call, hand, reached>>

(* The file was opened, or it could not be.                                       *)
InitEnds ==
  /\ Goto(Controller, "opened", "idle")
  /\ state' \in {"ready", "uninitialized"}
  /\ UNCHANGED <<level, configVars, countVars, fds, call, hand, reached>>

(* osal_log_shutdown: the state, then the file, then the configuration.             *)
ShutdownStart ==
  /\ state = "ready" /\ Reconfigures
  /\ state' = "uninitialized"
  /\ Goto(Controller, "idle", "closing")
  /\ UNCHANGED <<level, configVars, countVars, fds, call, hand, reached>>

CloseServer == fds' = IF enabled /\ sock # None THEN [fds EXCEPT ![sock] = "free"] ELSE fds

ShutdownEnds ==
  /\ Busy \/ Quiet
  /\ Goto(Controller, "closing", "idle")
  /\ CloseServer /\ Reset
  /\ FilterCleared
  /\ level' = Info
  /\ UNCHANGED <<state, call, hand, reached>>

(* osal_log_set_level                                                          *)
SetLevel(l) ==
  /\ Free /\ level' = l
  /\ UNCHANGED <<state, configVars, countVars, fds, pc, call, hand, reached>>

(* osal_log_set_filter: the new expression is compiled before the lock is taken.     *)
SetFilter ==
  /\ Configures
  /\ filter' = TRUE
  /\ regexes' = regexes + 1 - (IF filter THEN 1 ELSE 0)
  /\ UNCHANGED <<state, level, rate, sock, enabled, even, countVars, fds, pc, call, hand, reached>>

ClearFilter ==
  /\ Configures
  /\ FilterCleared
  /\ UNCHANGED <<state, level, rate, sock, enabled, even, countVars, fds, pc, call, hand, reached>>

(* osal_log_set_sampling                                                       *)
SetSampling(r) ==
  /\ Configures
  /\ rate' = r
  /\ even' = IF Quiet /\ counter = 0 THEN r ELSE IF r = even THEN even ELSE None
  /\ UNCHANGED <<state, level, filter, sock, enabled, regexes, countVars, fds, pc, call, hand,
                 reached>>

(* osal_log_set_remote: a socket, the least free descriptor, ...                    *)
SetRemote ==
  /\ Reconfigures
  /\ \E fd \in Fds :
       /\ fds[fd] = "free" /\ \A f \in Fds : fds[f] = "free" => fd <= f
       /\ fds' = [fds EXCEPT ![fd] = "server"]
       /\ hand' = [hand EXCEPT ![Controller] = fd]
  /\ Goto(Controller, "idle", "remote")
  /\ UNCHANGED <<state, level, configVars, countVars, call, reached>>

(* A slip: the old one is forgotten. *)
InstalledOver == UNCHANGED fds /\ sock' = hand[Controller] /\ enabled' = TRUE

(* ... which takes the place of the old one, which is closed first; or the address   *)
(* is none.                                                                     *)
Installed ==
  /\ fds' = IF enabled /\ sock # None THEN [fds EXCEPT ![sock] = "free"] ELSE fds
  /\ sock' = hand[Controller] /\ enabled' = TRUE

RemoteEnds ==
  /\ Busy \/ Quiet
  /\ Goto(Controller, "remote", "idle")
  /\ \/ Installed
     \/ fds' = [fds EXCEPT ![hand[Controller]] = "free"] /\ UNCHANGED <<sock, enabled>>
  /\ hand' = [hand EXCEPT ![Controller] = None]
  /\ UNCHANGED <<state, level, rate, filter, regexes, even, countVars, call, reached>>

(* osal_log_disable_remote                                                     *)
DisableRemote ==
  /\ Reconfigures
  /\ CloseServer
  /\ sock' = IF enabled THEN None ELSE sock
  /\ enabled' = FALSE
  /\ UNCHANGED <<state, level, rate, filter, regexes, even, countVars, pc, call, hand, reached>>

(* Another part of the program opens or closes a file.                            *)
Other ==
  /\ \E fd \in Fds :
       \/ /\ fds[fd] = "free" /\ \A f \in Fds : fds[f] = "free" => fd <= f
          /\ fds' = [fds EXCEPT ![fd] = "other"]
       \/ fds[fd] = "other" /\ fds' = [fds EXCEPT ![fd] = "free"]
  /\ UNCHANGED <<state, level, configVars, countVars, pc, call, hand, reached>>

Init ==
  /\ state = "uninitialized"
  /\ level = Info
  /\ rate = 1 /\ filter = FALSE /\ regexes = 0 /\ even = 1
  /\ counter = 0 /\ total = 0 /\ dropped = 0
  /\ sock = None /\ enabled = FALSE
  /\ fds = [fd \in Fds |-> "free"]
  /\ pc = [t \in Loggers \cup {Controller} |-> "idle"]
  /\ call = [t \in Loggers |-> "plain"]
  /\ hand = [t \in Loggers \cup {Controller} |-> None]
  /\ reached = {}

Next ==
  \/ \E t \in Loggers :
       \/ \E c \in Calls : \E l \in Levels : Log(t, c, l)
       \/ Count(t) \/ Judge(t) \/ Drop(t) \/ Keep(t) \/ Write(t) \/ Copy(t) \/ Send(t)
  \/ \E l \in Levels : InitStart(l) \/ SetLevel(l)
  \/ InitReset \/ InitEnds \/ ShutdownStart \/ ShutdownEnds \/ SetFilter \/ ClearFilter
  \/ \E r \in Rates : SetSampling(r)
  \/ SetRemote \/ RemoteEnds \/ DisableRemote \/ Other

Spec == Init /\ [][Next]_vars
-------------------------------------------------------------------------------
(* osal_log_get_stats: whatever the threads do at once, each message judged counts     *)
(* once, and as long as the rate stays and nothing is filtered, every rate-th of      *)
(* them is kept (the counters and g_config_mutex in _should_log_message).            *)
LogIsCounted ==
  LET At(where) == Cardinality({t \in Loggers : pc[t] \in where})
  IN state = "ready" /\ ~Busy =>
       /\ counter = total + dropped + At({"judge", "drop", "keep"})
       /\ (even # None /\ Quiet /\ regexes = 0 /\ ~filter) => total <= counter \div even

(* Nothing leaks, and nothing is freed or closed twice: each open socket of the log is  *)
(* the one it sends to or about to be, and each compiled expression is the filter.     *)
ConfigurationIsOwned ==
  /\ regexes = IF filter THEN 1 ELSE 0
  /\ {fd \in Fds : fds[fd] = "server"} = ({sock, hand[Controller]} \ {None})

(* A message sent reaches the server; without a lock it may reach another file, if     *)
(* the server changes meanwhile.                                                 *)
SentToServer == reached \subseteq {"server"}
===============================================================================
