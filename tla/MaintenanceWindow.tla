------------------------- MODULE MaintenanceWindow -------------------------
(***************************************************************************)
(* One scheduled job under maintenance windows: checkMaintenanceWindow,    *)
(* blockJobForMaintenance and the repeat of the job                        *)
(* (internal/scheduler/scheduler.go).  Scheduler models the same job's     *)
(* claim and run, and leaves the outcome of the window check open.         *)
(*                                                                         *)
(* A day has DayUnits units of time.  now counts the units of the week in  *)
(* the time zone of the server process and stands for an instant inside    *)
(* the unit, so start.After and end.Before never meet a boundary.  A zone  *)
(* is an offset from the server's in units.  next_run is kept as the units *)
(* left until it, which makes the model a finite cycle of weeks.           *)
(***************************************************************************)
EXTENDS Integers, FiniteSetsExt

CONSTANTS
  DayUnits,    \* bound: units of time per day
  WindowSets,  \* bound: the tables of enabled windows to explore
  JobType,     \* type of the job
  Site, Region,\* of the job's first device, which stands for all
  TimeAsText,  \* the driver hands a TIME column to a string as "15:04:05"
  RepeatEvery  \* units between a completed run and the next

Week == 7 * DayUnits
Days == 0..6

ASSUME WindowAssumption ==
  /\ DayUnits \in Nat \ {0} /\ RepeatEvery \in Nat \ {0}
  /\ TimeAsText \in BOOLEAN
  /\ \A ws \in WindowSets : \A w \in ws :
       /\ w.scope \in {"global", "region", "site"}
       /\ w.days \subseteq Days /\ w.zone \in Int
       /\ w.start \in 0..(DayUnits - 1) /\ w.end \in 0..(DayUnits - 1)

VARIABLES
  windows,  \* the enabled rows of maintenance_windows
  now,      \* unit of the week, in the server's zone
  wait,     \* units until next_run; 0 when the job is due
  checked,  \* checkAndRunJobs has looked at the due job in this unit
  jobStatus \* "pending", "blocked" or "running"

windowVars == <<windows, now, wait, checked, jobStatus>>

-----------------------------------------------------------------------------
(***************************************************************************)
(* checkMaintenanceWindow.                                                 *)
(***************************************************************************)
Applies(w) ==
  /\ \/ w.scope = "global"
     \/ w.scope = "region" /\ w.at = Region
     \/ w.scope = "site" /\ w.at = Site
  /\ JobType \in w.allow

(* The start and end columns, as the parse of what the driver hands over   *)
(* reads them: a parse that fails is ignored and gives the zero time.      *)
ClockOf(t) == IF TimeAsText THEN t ELSE 0

Local(w) == now + w.zone
Midnight(w) == (Local(w) \div DayUnits) * DayUnits
StartToday(w) == Midnight(w) + ClockOf(w.start)

(* Mutant of EndToday: the end of an overnight window stays on this day.   *)
EndTodaySameDay(w) == Midnight(w) + ClockOf(w.end)

EndToday(w) ==
  LET end == Midnight(w) + ClockOf(w.end) IN
    IF end < StartToday(w) THEN end + DayUnits ELSE end

(* time.Now().Weekday(): the day in the server's zone, not the window's.   *)
CurrentDOW == (now \div DayUnits) % 7

DayMatch(w) == w.days = {} \/ CurrentDOW \in w.days

(* Mutant of Within: the end of the window is not looked at.               *)
WithinOpenEnd(w) == DayMatch(w) /\ Local(w) >= StartToday(w)

Within(w) ==
  DayMatch(w) /\ Local(w) >= StartToday(w) /\ Local(w) < EndToday(w)

(* Every matching day of the next seven adds its distance: the search has  *)
(* no break out of its outer loop.                                         *)
DaysToAdd(w) ==
  IF w.days = {} \/ DayMatch(w) THEN 0
  ELSE SumSet({i \in 1..7 : (CurrentDOW + i) % 7 \in w.days})

(* Mutant of NextStart: the next end in place of the next start.           *)
NextStartEnd(w) == EndToday(w) + DayUnits * (DaysToAdd(w) + 1)

(* The start of the next window, in the window's zone.                     *)
NextStart(w) ==
  StartToday(w)
    + DayUnits * ((IF Local(w) >= StartToday(w) THEN 1 ELSE 0) + DaysToAdd(w))

InWindow == windows = {} \/ \E w \in windows : Applies(w) /\ Within(w)

-----------------------------------------------------------------------------
WindowInit ==
  /\ windows \in WindowSets
  /\ now \in 0..(Week - 1)
  /\ wait = 0
  /\ checked = FALSE
  /\ jobStatus = "pending"

(* checkAndRunJobs finds the job due inside a window (or without any).     *)
Run ==
  /\ jobStatus # "running" /\ wait = 0 /\ ~ checked
  /\ InWindow
  /\ jobStatus' = "running"
  /\ checked' = TRUE
  /\ UNCHANGED <<windows, now, wait>>

(* ... or blocks it until the earliest next start; with no window for this *)
(* kind of job next_run stays as it is and the job stays due.              *)
Block ==
  /\ jobStatus # "running" /\ wait = 0 /\ ~ checked
  /\ ~ InWindow
  /\ jobStatus' = "blocked"
  /\ checked' = TRUE
  /\ LET starts == {NextStart(w) - Local(w) : w \in {v \in windows : Applies(v)}}
     IN  wait' = IF starts = {} THEN 0 ELSE Min(starts)
  /\ UNCHANGED <<windows, now>>

(* The run ends within its unit and a repeat_cron schedules the next one   *)
(* at a fixed distance (scheduleNextRun, calculateNextRun).                *)
Repeat ==
  /\ jobStatus = "running"
  /\ jobStatus' = "pending"
  /\ wait' = RepeatEvery
  /\ UNCHANGED <<windows, now, checked>>

(* Time passes; a due job is looked at in every unit, since the check      *)
(* interval is at most five minutes.                                       *)
Tick ==
  /\ jobStatus # "running" /\ (wait = 0 => checked)
  /\ now' = (now + 1) % Week
  /\ wait' = IF wait = 0 THEN 0 ELSE wait - 1
  /\ checked' = FALSE
  /\ UNCHANGED <<windows, jobStatus>>

WindowNext == Run \/ Block \/ Repeat \/ Tick

WindowSpec == WindowInit /\ [][WindowNext]_windowVars

-----------------------------------------------------------------------------
(***************************************************************************)
(* What a window means: it opens on each of its days, a day of its own     *)
(* zone, at start, and closes at the first end after that.                 *)
(***************************************************************************)
Length(w) == IF w.end < w.start THEN w.end + DayUnits - w.start ELSE w.end - w.start
OpensOn(w, d) == w.days = {} \/ d % 7 \in w.days
OpenAt(w, t) ==  \* t: a unit in the window's zone
  \E d \in {t \div DayUnits, t \div DayUnits - 1} :
    /\ OpensOn(w, d)
    /\ t >= d * DayUnits + w.start
    /\ t < d * DayUnits + w.start + Length(w)

Open == windows = {} \/ \E w \in windows : Applies(w) /\ OpenAt(w, Local(w))

(* Where the code reads a window right: its days are days of the server's  *)
(* zone, it does not cross midnight, it opens every day.  Beyond these     *)
(* the weekday of another zone, the hours after midnight and the distance  *)
(* to the next of several days are wrong (see the README).                 *)
Usable     == {w \in windows : Applies(w)}
ServerDays == \A w \in Usable : w.days = {} \/ w.zone = 0
Daytime    == \A w \in Usable : w.start <= w.end
Daily      == \A w \in Usable : w.days = {}

(* "Jobs only run during configured maintenance windows for their target   *)
(* scope" (SPEC.md:2264): a job is started only while a window of its site,*)
(* region or the network that allows its type is open.                     *)
OnlyInWindow ==
  [][ServerDays /\ jobStatus' = "running" /\ jobStatus # "running" => Open]_windowVars

(* "Block the job until next window" (scheduler.go:261): while a blocked   *)
(* job waits for its next_run, no window it could use opens.               *)
NoWindowMissed ==
  Daily /\ Daytime /\ jobStatus = "blocked" /\ wait > 0 => ~ Open

(* A blocked job runs in the end, if its windows are daily, day or night,  *)
(* and one of them is not empty (scheduler.go:387-405).                    *)
BlockedJobRuns ==
  jobStatus = "blocked" /\ Daily /\ (\E w \in Usable : w.start # w.end)
    ~> jobStatus = "running"

=============================================================================
