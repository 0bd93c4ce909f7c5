---------------------------- MODULE SecondFactor ----------------------------
(***************************************************************************)
(* One person's second factor: enrolling an authenticator app, confirming  *)
(* it, signing in with a code and turning it off (accounts/mfa.py and the  *)
(* views that call it).  A sign-in holds the device's row; an enrolment    *)
(* reads it and saves all of it later, under no lock.                      *)
(***************************************************************************)
EXTENDS Integers, FiniteSets

CONSTANTS Browsers,      \* requests of the person that can run at once
          Printed,       \* the recovery codes of one batch, by their place on the printout
          NoDevice,
          MaxSteps,      \* steps of thirty seconds the clock goes on for
          MaxSecrets     \* enrolments that begin

ASSUME FactorConstants == MaxSteps \in Nat /\ MaxSecrets \in Nat

VARIABLES
    counter,   \* the step of thirty seconds it is
    secrets,   \* secrets generated so far
    batches,   \* batches of recovery codes handed out so far
    device,    \* the TOTPDevice row
    login,     \* per request: where it is, the row and the code it has in hand
    uses,      \* how often each code was accepted (history)
    crossed    \* an enrolment was saved over a row it had not read (history)

factorVars == <<counter, secrets, batches, device, login, uses, crossed>>

\* A code an app shows is its secret's for one step; a printed one is of a batch.
AppCodes == {"app"} \X (1..MaxSecrets) \X (0..MaxSteps + 1)
PrintedCodes == {"printed"} \X (1..MaxSecrets) \X Printed
Codes == AppCodes \cup PrintedCodes
Batch(b) == {"printed"} \X {b} \X Printed

Device == [id : 1..MaxSecrets, secret : 1..MaxSecrets, confirmed : BOOLEAN,
           last_counter : -1..MaxSteps + 1, recovery_codes : SUBSET PrintedCodes]

NoLogin == [pc |-> "idle", row |-> NoDevice, code |-> <<>>]

FactorInit == /\ counter = 0 /\ secrets = 0 /\ batches = 0
              /\ device = NoDevice
              /\ login = [b \in Browsers |-> NoLogin]
              /\ uses = [c \in Codes |-> 0]
              /\ crossed = FALSE

Becomes(b, pc, code) ==
    login' = [login EXCEPT ![b] = [pc |-> pc, row |-> device, code |-> code]]
Over(b) == login' = [login EXCEPT ![b] = NoLogin]

\* Mutant: the row is read without FOR UPDATE.
DeviceNeverLocked == TRUE

\* Nobody holds the row: an UPDATE of it need not wait either.
DeviceFree == \A b \in Browsers : login[b].pc \notin {"verify", "disable"}

\* match_counter: the app's code for this step or one of its neighbours.
Matches(row, c) == /\ c[1] = "app" /\ c[2] = row.secret
                   /\ c[3] \in counter - 1..counter + 1

\* save() of the row as it was loaded and changed: an update of its id, or an
\* insert when it has gone; the person has one device at most.
Savable(b) == device # NoDevice =>
                  login[b].row # NoDevice /\ device.id = login[b].row.id

Saves(b, row) == /\ DeviceFree /\ Savable(b)
                 /\ device' = row
                 /\ crossed' = (crossed \/ device # login[b].row)
                 /\ Over(b)

-----------------------------------------------------------------------------
(* Enrolment                                                               *)

Setup(b) == /\ login[b].pc = "idle"
            /\ secrets < MaxSecrets
            /\ device # NoDevice => ~device.confirmed
            /\ Becomes(b, "setup", <<>>)
            /\ UNCHANGED <<counter, secrets, batches, device, uses, crossed>>

\* A fresh secret, in a new row or in place of the abandoned one.
Enrolled(b) ==
    LET row == login[b].row
    IN  [id |-> IF row = NoDevice THEN secrets + 1 ELSE row.id, secret |-> secrets + 1,
         confirmed |-> FALSE, last_counter |-> -1, recovery_codes |-> {}]

SaveSetup(b) == /\ login[b].pc = "setup"
                /\ secrets < MaxSecrets
                /\ secrets' = secrets + 1
                /\ Saves(b, Enrolled(b))
                /\ UNCHANGED <<counter, batches, uses>>

Confirm(b, c) == /\ login[b].pc = "idle"
                 /\ device # NoDevice /\ ~device.confirmed
                 /\ Matches(device, c)
                 /\ Becomes(b, "confirm", c)
                 /\ UNCHANGED <<counter, secrets, batches, device, uses, crossed>>

\* The code's step is spent, and a batch of recovery codes is handed out.
Confirmed(b) ==
    [login[b].row EXCEPT !.confirmed = TRUE, !.last_counter = login[b].code[3],
                         !.recovery_codes = Batch(batches + 1)]

SaveConfirm(b) == /\ login[b].pc = "confirm"
                  /\ batches < MaxSecrets
                  /\ batches' = batches + 1
                  /\ uses' = [uses EXCEPT ![login[b].code] = @ + 1]
                  /\ Saves(b, Confirmed(b))
                  /\ UNCHANGED <<counter, secrets>>

-----------------------------------------------------------------------------
(* The sign-in's second half, and turning it off                           *)

\* verify under the row lock: an app's code of a later step than the last one,
\* or a printed code that is left.
Present(b, c, pc) ==
    /\ login[b].pc = "idle"
    /\ DeviceFree
    /\ device # NoDevice /\ device.confirmed
    /\ \/ Matches(device, c) /\ c[3] > device.last_counter
       \/ c \in device.recovery_codes
    /\ Becomes(b, pc, c)
    /\ UNCHANGED <<counter, secrets, batches, device, uses, crossed>>

\* The code is spent with the row as it was read: its step, or its place.
Spent(b) ==
    LET c == login[b].code
    IN  IF c[1] = "app" THEN [device EXCEPT !.last_counter = c[3]]
        ELSE [device EXCEPT !.recovery_codes = login[b].row.recovery_codes \ {c}]

AcceptCode(b) == /\ login[b].pc = "verify"
                 /\ device' = Spent(b)
                 /\ uses' = [uses EXCEPT ![login[b].code] = @ + 1]
                 /\ Over(b)
                 /\ UNCHANGED <<counter, secrets, batches, crossed>>

TurnOff(b) == /\ login[b].pc = "disable"
              /\ device' = NoDevice
              /\ uses' = [uses EXCEPT ![login[b].code] = @ + 1]
              /\ Over(b)
              /\ UNCHANGED <<counter, secrets, batches, crossed>>

\* A save that fails, or the process that dies: nothing is committed.
GivesUp(b) == /\ login[b].pc # "idle"
              /\ Over(b)
              /\ UNCHANGED <<counter, secrets, batches, device, uses, crossed>>

\* Half a minute goes by.
Tick == /\ counter < MaxSteps
        /\ counter' = counter + 1
        /\ UNCHANGED <<secrets, batches, device, login, uses, crossed>>

FactorNext == \/ \E b \in Browsers :
                   \/ Setup(b) \/ SaveSetup(b) \/ SaveConfirm(b)
                   \/ \E c \in AppCodes : Confirm(b, c)
                   \/ \E c \in Codes, pc \in {"verify", "disable"} : Present(b, c, pc)
                   \/ AcceptCode(b) \/ TurnOff(b) \/ GivesUp(b)
              \/ Tick

FactorSpec == FactorInit /\ [][FactorNext]_factorVars

-----------------------------------------------------------------------------
FactorTypeOK ==
    /\ counter \in 0..MaxSteps /\ secrets \in 0..MaxSecrets /\ batches \in 0..MaxSecrets
    /\ device \in Device \cup {NoDevice}
    /\ login \in [Browsers -> [pc : {"idle", "setup", "confirm", "verify", "disable"},
                              row : Device \cup {NoDevice}, code : Codes \cup {<<>>}]]
    /\ uses \in [Codes -> Nat]
    /\ crossed \in BOOLEAN

\* "A code is accepted once" (mfa.py:10), by whatever sign-ins are under way at
\* once, the code that confirmed the app included; and of the printed codes
\* those are left that nobody has used. Saving an enrolment over a row somebody
\* has changed since may bring back what was spent.
CodesAreSpentOnce ==
    ~crossed => /\ \A c \in Codes : uses[c] <= 1
                /\ device # NoDevice /\ device.confirmed =>
                      device.recovery_codes = {c \in Batch(batches) : uses[c] = 0}
=============================================================================
