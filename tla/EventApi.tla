------------------------------- MODULE EventApi -------------------------------
(***************************************************************************)
(* What the event loop promises its callers, without its nodes, lists,     *)
(* hash, timerfd and epoll set: a callback is run once for each TIMER_ON,  *)
(* REAR_ON or report of a descriptor, not before its time and never after  *)
(* the matching OFF; descriptors cannot keep a due timer waiting, and the  *)
(* callbacks of one round come in the order timers, descriptors, rear      *)
(* nodes.                                                                  *)
(***************************************************************************)
EXTENDS Naturals

CONSTANTS
    Timers,     \* what TIMER_ON and REAR_ON may hand out
    Fds,        \* file descriptors
    Delays,     \* the delays TIMER_ON and REAR_ON are called with
    ListenFd    \* the one that stays armed when it is reported

VARIABLES
    timer,      \* off, set for a time, or ready to run
    watch,      \* fd -> watched, armed, ready to run
    now         \* the clock

vars == <<timer, watch, now>>

Off == [state |-> "off", rear |-> FALSE, time |-> 0]

Closed == [open |-> FALSE, armed |-> FALSE, ready |-> FALSE]

Init ==
    /\ timer = [n \in Timers |-> Off]
    /\ watch = [fd \in Fds |-> Closed]
    /\ now = 0

(* TIMER_ON and TIMER_OFF, REAR_ON and REAR_OFF *)
Set(n, rear, delay) ==
    /\ timer[n] = Off
    /\ timer' = [timer EXCEPT ![n] = [state |-> "set", rear |-> rear, time |-> now + delay]]
    /\ UNCHANGED <<watch, now>>

Stop(n) ==
    /\ timer[n] # Off
    /\ timer' = [timer EXCEPT ![n] = Off]
    /\ UNCHANGED <<watch, now>>

(* EVENT_SET of a new descriptor and of one that is watched, EVENT_OFF *)
Open(fd) ==
    /\ watch[fd] = Closed
    /\ watch' = [watch EXCEPT ![fd] = [open |-> TRUE, armed |-> TRUE, ready |-> FALSE]]
    /\ UNCHANGED <<timer, now>>

Arm(fd) ==
    /\ watch[fd].open
    /\ watch' = [watch EXCEPT ![fd] = [open |-> TRUE, armed |-> TRUE, ready |-> watch[fd].ready]]
    /\ UNCHANGED <<timer, now>>

Close(fd) ==
    /\ watch[fd].open /\ fd # ListenFd
    /\ watch' = [watch EXCEPT ![fd] = Closed]
    /\ UNCHANGED <<timer, now>>

-----------------------------------------------------------------------------
(* One callback is begun: a timer's if one is ready, else a descriptor's,  *)
(* and a rear node's only when nothing else is.                            *)
OnlyRear(t) == \A n \in Timers : t[n].state = "ready" => t[n].rear

RunTimer(t, w, n) ==
    /\ t[n].state = "ready"
    /\ t[n].rear => OnlyRear(t) /\ \A fd \in Fds : ~w[fd].ready
    /\ timer' = [t EXCEPT ![n] = Off]
    /\ watch' = w

RunWatch(t, w, fd) ==
    /\ w[fd].ready /\ OnlyRear(t)
    /\ timer' = t
    /\ watch' = [w EXCEPT ![fd] = [open |-> TRUE, armed |-> w[fd].armed, ready |-> FALSE]]

Begin(t, w) ==
    /\ \/ \E n \in Timers : RunTimer(t, w, n)
       \/ \E fd \in Fds : RunWatch(t, w, fd)
    /\ UNCHANGED now

NothingReady ==
    /\ \A n \in Timers : timer[n].state # "ready"
    /\ \A fd \in Fds : ~watch[fd].ready

(* Due timers T: those of a kind are taken in the order of their times, at *)
(* least one of each kind that has some.                                   *)
Due(n) == timer[n].state = "set" /\ timer[n].time <= now

InTurn(T) ==
    /\ \A n \in T, k \in Timers \ T :
         timer[k].state = "set" /\ timer[k].rear = timer[n].rear => timer[n].time <= timer[k].time
    /\ \A k \in Timers : Due(k) => \E n \in T : timer[n].rear = timer[k].rear

Woken(T) ==
    [n \in Timers |-> IF n \in T THEN [state |-> "ready", rear |-> timer[n].rear,
                                       time |-> timer[n].time]
                      ELSE timer[n]]

Reported(S) ==
    [fd \in Fds |-> IF fd \in S THEN [open |-> TRUE, armed |-> fd = ListenFd, ready |-> TRUE]
                    ELSE watch[fd]]

(* A round with nothing ready: timers and descriptors become ready, and    *)
(* the first callback is begun.  It never comes round for nothing.         *)
Round ==
    /\ NothingReady
    /\ \E T \in SUBSET {n \in Timers : Due(n)} :
         /\ InTurn(T)
         /\ \E S \in SUBSET {fd \in Fds : watch[fd].open /\ watch[fd].armed} :
              Begin(Woken(T), Reported(S))

(* What became ready is run before anything else does. *)
Run == ~NothingReady /\ Begin(timer, watch)

Tick == now' = now + 1 /\ UNCHANGED <<timer, watch>>

Next ==
    \/ \E n \in Timers, rear \in BOOLEAN, delay \in Delays : Set(n, rear, delay)
    \/ \E n \in Timers : Stop(n)
    \/ \E fd \in Fds : Open(fd) \/ Arm(fd) \/ Close(fd)
    \/ Round \/ Run \/ Tick

Spec == Init /\ [][Next]_vars

=============================================================================
