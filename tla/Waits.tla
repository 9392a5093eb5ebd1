------------------------------- MODULE Waits -------------------------------
(***************************************************************************)
(* The calls of StdFunc and TimeFunc that wait (src/stdfunc.cpp,           *)
(* src/timefunc.cpp): each runs an event loop of its own until a timer, a  *)
(* socket or a process tells that loop to quit.  What the loop delivers    *)
(* may start another wait, and the outer one cannot return before it,      *)
(* though its timer and its socket are served.  Ping stops everything.     *)
(*                                                                         *)
(* The flag WaitFor waits for is StdFunc's cancelled flag.  A unit of time *)
(* is the interval at which WaitFor looks at it.                           *)
(***************************************************************************)
EXTENDS Naturals, Sequences, SequencesExt

CONSTANTS
    Delays,      \* how long the application waits
    PortTime,   \* how long CheckPort does
    PingTime,   \* how long Ping does
    MaxWaits,   \* bound on the waits at a time
    MaxClock    \* bound on the clock

ASSUME DelaysAssumption == Delays \subseteq Nat /\ MaxClock \in Nat
ASSUME PortTimeAssumption == PortTime \in Nat /\ PortTime > 0 /\ PingTime \in Nat

VARIABLES
    clock,
    waits,           \* the calls that wait, the innermost last
    cancelled,       \* s_state.cancelled
    cancelEnabled,   \* s_state.cancelEnabled
    told             \* what the last call that waited returned

waitsVars == <<clock, waits, cancelled, cancelEnabled, told>>

Never == MaxClock + PortTime + 1
Clock == 0..Never

Waiting ==
    [kind : {"Wait", "WaitFor", "CheckPort", "WhoAmI"},
     end : Clock,        \* when the time it was given is over
     timer : Clock,      \* when its timer fires
     poll : Clock,       \* when WaitFor looks at the flag
     quit : BOOLEAN,     \* its loop was told to quit
     open : BOOLEAN,     \* CheckPort still has the address
     reached : BOOLEAN,  \* history: what it waits for came
     until : Clock]      \* history: when it must have returned

WaitsTypeOK ==
    /\ clock \in 0..MaxClock
    /\ waits \in Seq(Waiting)
    /\ cancelled \in BOOLEAN /\ cancelEnabled \in BOOLEAN
    /\ told \in BOOLEAN

WaitsInit ==
    /\ clock = 0
    /\ waits = <<>>
    /\ cancelled = FALSE /\ cancelEnabled = TRUE
    /\ told = TRUE

cancel == <<cancelled, cancelEnabled>>

-----------------------------------------------------------------------------
(* A wait begins, in the application or in what an outer wait delivers. *)
BeginWait(kind, end, poll) ==
    /\ Len(waits) < MaxWaits
    /\ waits' = Append([i \in DOMAIN waits |-> [waits[i] EXCEPT !.until = Max({@, end})]],
           [kind |-> kind, end |-> end, timer |-> end, poll |-> poll, quit |-> FALSE,
            open |-> TRUE, reached |-> FALSE, until |-> end])
    /\ UNCHANGED <<clock, cancel, told>>

Wait == \E ms \in Delays : clock + ms <= MaxClock /\ BeginWait("Wait", clock + ms, Never)

WaitFor ==
    /\ ~cancelled
    /\ \E ms \in Delays : clock + ms <= MaxClock /\ BeginWait("WaitFor", clock + ms, clock + 1)

WaitForNothing ==
    /\ cancelled
    /\ told' = TRUE
    /\ UNCHANGED <<clock, waits, cancel>>

CheckPort == clock + PortTime <= MaxClock /\ BeginWait("CheckPort", clock + PortTime, Never)

\* WhoAmI has no timer.
WhoAmI == BeginWait("WhoAmI", Never, Never)

-----------------------------------------------------------------------------
(* Events, delivered by the innermost loop to the wait they are for. *)

Quit(i, w) == waits' = [waits EXCEPT ![i] = [w EXCEPT !.quit = TRUE]]

\* CheckPort's timer goes on; the other timers are single-shot.
TimerMutant(i) ==  \* the innermost loop is told to quit
    LET w == waits[i]
    IN  /\ w.timer <= clock
        /\ waits' = [waits EXCEPT ![i].timer = Never, ![Len(waits)].quit = TRUE]
        /\ UNCHANGED <<clock, cancel, told>>

Timer(i) ==
    LET w == waits[i]
    IN  /\ w.timer <= clock
        /\ IF w.kind = "CheckPort"
           THEN Quit(i, [w EXCEPT !.timer = clock + PortTime, !.open = FALSE])
           ELSE Quit(i, [w EXCEPT !.timer = Never])
        /\ UNCHANGED <<clock, cancel, told>>

Poll(i) ==
    LET w == [waits[i] EXCEPT !.poll = clock + 1]
    IN  /\ waits[i].poll <= clock
        /\ IF cancelled THEN Quit(i, [w EXCEPT !.reached = TRUE])
           ELSE waits' = [waits EXCEPT ![i] = w]
        /\ UNCHANGED <<clock, cancel, told>>

\* The socket is connected; the process has ended or did not start.
Reach(i) ==
    /\ waits[i].kind \in {"CheckPort", "WhoAmI"}
    /\ ~waits[i].reached
    /\ Quit(i, [waits[i] EXCEPT !.reached = TRUE])
    /\ UNCHANGED <<clock, cancel, told>>

Cancel ==
    /\ cancelEnabled
    /\ cancelled' = TRUE
    /\ UNCHANGED <<clock, waits, cancelEnabled, told>>

ClearCancel ==
    /\ cancelled' = FALSE
    /\ UNCHANGED <<clock, waits, cancelEnabled, told>>

SetCancel(enabled) ==
    /\ cancelEnabled' = enabled
    /\ UNCHANGED <<clock, waits, cancelled, told>>

\* Ping waits for its process without an event loop.
Ping ==
    /\ clock + PingTime <= MaxClock
    /\ clock' = clock + PingTime
    /\ waits' = [i \in DOMAIN waits |-> [waits[i] EXCEPT !.until = Max({@, clock'})]]
    /\ UNCHANGED <<cancel, told>>

-----------------------------------------------------------------------------
(* A loop that was told to quit ends with the events at hand, and only a    *)
(* loop with nothing to deliver lets time pass.                             *)
Answer(w) ==
    CASE w.kind = "WaitFor"   -> cancelled
      [] w.kind = "CheckPort" -> w.open
      [] OTHER                -> TRUE

ReturnWait ==
    /\ waits # <<>> /\ Last(waits).quit
    /\ told' = Answer(Last(waits))
    /\ waits' = Front(waits)
    /\ UNCHANGED <<clock, cancel>>

Tick ==
    /\ clock < MaxClock /\ waits # <<>>
    /\ ~Last(waits).quit
    /\ \A i \in DOMAIN waits : clock < waits[i].timer /\ clock < waits[i].poll
    /\ clock' = clock + 1
    /\ UNCHANGED <<waits, cancel, told>>

WaitsNext ==
    \/ Wait \/ WaitFor \/ WaitForNothing \/ CheckPort \/ WhoAmI
    \/ \E i \in DOMAIN waits : Timer(i) \/ Poll(i) \/ Reach(i)
    \/ Cancel \/ ClearCancel \/ \E e \in BOOLEAN : SetCancel(e)
    \/ Ping
    \/ ReturnWait \/ Tick

WaitsSpec == WaitsInit /\ [][WaitsNext]_waitsVars

-----------------------------------------------------------------------------
(* A wait returns no later than its own time and that of the waits its     *)
(* handlers started are over, or Ping comes back.  It returns earlier only  *)
(* because what it waits for came; so WaitFor says no, and CheckPort says   *)
(* closed, before the time is over only if the flag was seen and cleared    *)
(* again.                                                                   *)
WaitsKeepTime ==
    [][Len(waits') < Len(waits) =>
           LET w == Last(waits)
           IN  /\ clock <= w.until
               /\ clock < w.end => w.reached
               /\ clock < w.end /\ w.kind = "CheckPort" => told'
               /\ w.kind = "CheckPort" /\ told' => w.reached
      ]_waitsVars
=============================================================================
