--------------------------- MODULE RuntimeSettings ---------------------------
(***************************************************************************)
(* How a change of the settings table reaches the running server: a form   *)
(* is saved in one transaction (applySettingUpdates) and the request then  *)
(* reloads the firmware service and the poller, the poller also reloads    *)
(* every minute (watchConfig), and UpdateRuntimeConfig writes the poll     *)
(* interval and applies it at once. Each reload reads the rows one by one, *)
(* computes the new configuration outside the lock and then installs it.   *)
(*                                                                         *)
(* The settings kept are one of each kind: the interval, whose change is   *)
(* passed to the poll loop over a channel of one slot; one pair of         *)
(* credentials, whose user and password are two rows; the management       *)
(* prefixes, which are installed in two places.                            *)
(***************************************************************************)
EXTENDS Naturals, FiniteSets

CONSTANTS
    Requests,    \* requests of administrators that may run at once
    Watch,       \* the goroutine of watchConfig
    Intervals, Logins, FirstInterval, FirstLogin,
    NoValue,     \* an empty channel, no pair
    MaxSaves,    \* bound: changes of the settings
    MaxFaults    \* bound: reads that fail

Loaders == Requests \cup {Watch}

\* Login k is user k with password k; 0 is the empty value of a row.
Rows == {0} \cup Logins

ASSUME SettingsAssumption ==
    /\ Watch \notin Requests /\ 0 \notin Logins
    /\ FirstInterval \in Intervals /\ FirstLogin \in Logins
    /\ MaxSaves \in Nat /\ MaxFaults \in Nat

VARIABLES
    dbInterval, dbUser, dbPass, dbPrefixes,      \* rows of settings
    interval, pair, prefixes,                    \* Poller, under configMu
    filter,                                      \* the store has an IP filter
    slot,                                        \* p.intervalChanged
    ticker,                                      \* the interval the poll loop uses
    fwPair,                                      \* Service.apCreds
    at,                                          \* position of each loader
    oldInterval, newInterval, user, newPair, newPrefixes,   \* its locals,
                                                 \* dropped after their last use
    saves, faults,
    stored,     \* history: pairs that have been in the table
    raced,      \* history: a change during the reload of another one
    erred       \* history: the last firmware reload failed

dbVars == <<dbInterval, dbUser, dbPass, dbPrefixes>>
confVars == <<interval, pair, prefixes>>
localVars == <<oldInterval, newInterval, user, newPair, newPrefixes>>
histVars == <<saves, faults, stored, raced, erred>>
settingsVars == <<dbVars, confVars, filter, slot, ticker, fwPair, at, localVars, histVars>>

\* readCredentialPairs: an incomplete pair is passed over.
PairOf(u, p) == IF u = 0 \/ p = 0 THEN NoValue ELSE <<u, p>>
StoredPair == PairOf(dbUser, dbPass)
\* Start has loaded the configuration before the first cycle.
SettingsInit ==
    /\ dbInterval = FirstInterval /\ dbPrefixes = FALSE
    /\ dbUser = FirstLogin /\ dbPass = FirstLogin
    /\ interval = dbInterval /\ ticker = dbInterval /\ slot = NoValue
    /\ pair = StoredPair /\ fwPair = StoredPair
    /\ prefixes = FALSE /\ filter = FALSE
    /\ at = [l \in Loaders |-> "idle"]
    /\ oldInterval = [l \in Loaders |-> NoValue]
    /\ newInterval = [l \in Loaders |-> NoValue]
    /\ user = [l \in Loaders |-> 0]
    /\ newPair = [l \in Loaders |-> NoValue]
    /\ newPrefixes = [l \in Loaders |-> NoValue]
    /\ saves = 0 /\ faults = 0
    /\ stored = {StoredPair} /\ raced = FALSE /\ erred = FALSE

-----------------------------------------------------------------------------
Go(l, p) == at' = [at EXCEPT ![l] = p]

Finish(l) ==
    /\ Go(l, "idle")
    /\ oldInterval' = [oldInterval EXCEPT ![l] = NoValue]
    /\ newInterval' = [newInterval EXCEPT ![l] = NoValue]
    /\ user' = [user EXCEPT ![l] = 0]
    /\ newPair' = [newPair EXCEPT ![l] = NoValue]
    /\ newPrefixes' = [newPrefixes EXCEPT ![l] = NoValue]

Changing(r) ==
    /\ r \in Requests /\ at[r] = "idle" /\ saves < MaxSaves
    /\ saves' = saves + 1
    /\ raced' = (raced \/ \E l \in Loaders \ {r} : at[l] # "idle")
    /\ UNCHANGED <<confVars, filter, slot, ticker, fwPair, faults, erred>>

\* validateSettingsSnapshot: a user and a password, or neither.
CompletePair(u, p) == (u = 0) = (p = 0)

\* applySettingUpdates: every row is locked, validated and written in one transaction;
\* a form changes settings of one kind here.
applySettingUpdates(r) ==
    /\ Changing(r)
    /\ \/ \E i \in Intervals \ {dbInterval} :
              dbInterval' = i /\ UNCHANGED <<dbUser, dbPass, dbPrefixes>>
       \/ \E u, p \in Rows : /\ CompletePair(u, p) /\ u = p
                             /\ <<u, p>> # <<dbUser, dbPass>>
                             /\ dbUser' = u /\ dbPass' = p
                             /\ UNCHANGED <<dbInterval, dbPrefixes>>
       \/ dbPrefixes' = ~dbPrefixes /\ UNCHANGED <<dbInterval, dbUser, dbPass>>
    /\ stored' = stored \cup {PairOf(dbUser', dbPass')}
    /\ Go(r, "fwUser")
    /\ UNCHANGED localVars

\* Service.loadConfig of firmware. An error ends the request before the poller reloads.
FwReadUser(r) ==
    /\ at[r] = "fwUser"
    /\ user' = [user EXCEPT ![r] = dbUser]
    /\ Go(r, "fwPass")
    /\ UNCHANGED <<dbVars, confVars, filter, slot, ticker, fwPair, oldInterval, newInterval,
                   newPair, newPrefixes, histVars>>

FwReadPass(r) ==
    /\ at[r] = "fwPass"
    /\ newPair' = [newPair EXCEPT ![r] = PairOf(user[r], dbPass)]
    /\ user' = [user EXCEPT ![r] = 0]
    /\ Go(r, "fwApply")
    /\ UNCHANGED <<dbVars, confVars, filter, slot, ticker, fwPair, oldInterval, newInterval,
                   newPrefixes, histVars>>

FwFails(r) ==
    /\ at[r] = "fwPass" /\ faults < MaxFaults
    /\ faults' = faults + 1 /\ erred' = TRUE
    /\ Finish(r)
    /\ UNCHANGED <<dbVars, confVars, filter, slot, ticker, fwPair, saves, stored, raced>>

FwApply(r) ==
    /\ at[r] = "fwApply"
    /\ fwPair' = newPair[r] /\ erred' = FALSE
    /\ Go(r, "begin")
    /\ UNCHANGED <<dbVars, confVars, filter, slot, ticker, localVars, saves, faults, stored,
                   raced>>

-----------------------------------------------------------------------------
(* Poller.loadConfig, by a request after its firmware reload or by watchConfig. *)

Begin(l) ==
    /\ at[l] = "begin" \/ (l = Watch /\ at[l] = "idle")
    /\ oldInterval' = [oldInterval EXCEPT ![l] = interval]
    /\ newPair' = [newPair EXCEPT ![l] = pair]
    /\ Go(l, "user")
    /\ UNCHANGED <<dbVars, confVars, filter, slot, ticker, fwPair, newInterval, user,
                   newPrefixes, histVars>>

ReadUser(l) ==
    /\ at[l] = "user"
    /\ newInterval' = [newInterval EXCEPT ![l] = dbInterval]
    /\ user' = [user EXCEPT ![l] = dbUser]
    /\ Go(l, "pass")
    /\ UNCHANGED <<dbVars, confVars, filter, slot, ticker, fwPair, oldInterval, newPair,
                   newPrefixes, histVars>>

\* A failed read of the credentials leaves the pair of the snapshot in place, a failed
\* read of the prefixes leaves both of theirs alone.
LoadedPair(l) == PairOf(user[l], dbPass)

\* Mutant of KeptPair: the failed read is taken for an empty list.
KeptNone(l) == NoValue
KeptPair(l) == newPair[l]

ReadPass(l) ==
    /\ at[l] = "pass"
    /\ \/ /\ newPair' = [newPair EXCEPT ![l] = LoadedPair(l)]
          /\ newPrefixes' = [newPrefixes EXCEPT ![l] = dbPrefixes]
          /\ UNCHANGED faults
       \/ /\ faults < MaxFaults /\ faults' = faults + 1
          /\ newPair' = [newPair EXCEPT ![l] = KeptPair(l)]
          /\ UNCHANGED newPrefixes
    /\ user' = [user EXCEPT ![l] = 0]
    /\ Go(l, "apply")
    /\ UNCHANGED <<dbVars, confVars, filter, slot, ticker, fwPair, oldInterval, newInterval,
                   saves, stored, raced, erred>>

InstallConfig(l) ==
    /\ at[l] = "apply"
    /\ interval' = newInterval[l]
    /\ pair' = newPair[l]
    /\ prefixes' = IF newPrefixes[l] = NoValue THEN prefixes ELSE newPrefixes[l]
    /\ Go(l, IF newInterval[l] # oldInterval[l] THEN "notify" ELSE "filter")
    /\ oldInterval' = [oldInterval EXCEPT ![l] = NoValue]
    /\ newInterval' = [newInterval EXCEPT ![l] = IF @ = oldInterval[l] THEN NoValue ELSE @]
    /\ newPair' = [newPair EXCEPT ![l] = NoValue]
    /\ UNCHANGED <<dbVars, filter, slot, ticker, fwPair, user, newPrefixes, histVars>>

\* Mutant of Notify: a full slot is left alone.
NotifyIfEmpty(l) ==
    /\ at[l] = "notify"
    /\ slot' = IF slot = NoValue THEN newInterval[l] ELSE slot
    /\ Go(l, "filter")
    /\ UNCHANGED <<dbVars, confVars, filter, ticker, fwPair, localVars, histVars>>

\* The send to a channel of one slot: when it is full, the value in it is taken out and
\* the send tried once more.
Notify(l) ==
    /\ at[l] = "notify"
    /\ IF slot = NoValue
       THEN slot' = newInterval[l] /\ Go(l, "filter")
       ELSE slot' = NoValue /\ Go(l, "resend")
    /\ UNCHANGED <<dbVars, confVars, filter, ticker, fwPair, localVars, histVars>>

Resend(l) ==
    /\ at[l] = "resend"
    /\ slot' = IF slot = NoValue THEN newInterval[l] ELSE slot
    /\ Go(l, "filter")
    /\ UNCHANGED <<dbVars, confVars, filter, ticker, fwPair, localVars, histVars>>

\* SetIPFilter, after the lock is released; nothing for UpdateRuntimeConfig.
SetFilter(l) ==
    /\ at[l] = "filter"
    /\ filter' = IF newPrefixes[l] = NoValue THEN filter ELSE newPrefixes[l]
    /\ Finish(l)
    /\ UNCHANGED <<dbVars, confVars, slot, ticker, fwPair, histVars>>

\* The poll loop takes the new interval and resets its ticker.
ResetTicker ==
    /\ slot # NoValue
    /\ ticker' = slot /\ slot' = NoValue
    /\ UNCHANGED <<dbVars, confVars, filter, fwPair, at, localVars, histVars>>

-----------------------------------------------------------------------------
(* UpdateRuntimeConfig. *)

UpdateRuntimeConfig(r) ==
    /\ Changing(r)
    /\ \E i \in Intervals :
          /\ dbInterval' = i
          /\ newInterval' = [newInterval EXCEPT ![r] = i]
    /\ Go(r, "compare")
    /\ UNCHANGED <<dbUser, dbPass, dbPrefixes, oldInterval, user, newPair, newPrefixes,
                   stored>>

CompareInterval(r) ==
    /\ at[r] = "compare"
    /\ IF newInterval[r] # interval
       THEN Go(r, "set") /\ UNCHANGED localVars
       ELSE Finish(r)
    /\ UNCHANGED <<dbVars, confVars, filter, slot, ticker, fwPair, histVars>>

SetInterval(r) ==
    /\ at[r] = "set"
    /\ interval' = newInterval[r]
    /\ Go(r, "notify")
    /\ UNCHANGED <<dbVars, pair, prefixes, filter, slot, ticker, fwPair, localVars, histVars>>

-----------------------------------------------------------------------------
LoaderStep(l) ==
    \/ Begin(l) \/ ReadUser(l) \/ ReadPass(l) \/ InstallConfig(l) \/ Notify(l) \/ Resend(l)
    \/ SetFilter(l) \/ FwReadUser(l) \/ FwReadPass(l) \/ FwFails(l) \/ FwApply(l)
    \/ CompareInterval(l) \/ SetInterval(l)

SettingsNext ==
    \/ ResetTicker
    \/ \E r \in Requests : applySettingUpdates(r) \/ UpdateRuntimeConfig(r)
    \/ \E l \in Loaders : LoaderStep(l)

-----------------------------------------------------------------------------
(* Properties. *)

\* What nothing repairs: the ticker of the poll loop and the credentials of the firmware
\* service follow the table when no change came in during the reload of another one and
\* the administrator was not told of an error (settings.go:303-318, service.go:336-367).
UnracedSettles ==
    <>[](raced \/ (ticker = dbInterval /\ (erred \/ fwPair = StoredPair)))

=============================================================================
