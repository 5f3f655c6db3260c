------------------------------ MODULE Scanners ------------------------------
(***************************************************************************)
(* How a scanner becomes one that may call the service.  An organiser asks *)
(* for a pin; the scanner confirms the pin and is given an API key, which  *)
(* it sends with its MAC address from then on.  Pins and keys are Firestore *)
(* documents that every process reads, deletes and writes one call at a    *)
(* time.                                                                   *)
(*                                                                         *)
(* Each pin that is generated has a number of its own, its issue; the      *)
(* document of a pin holds the issue written last.  A key is known by the  *)
(* request that made it.  There are no clocks: at any moment a document    *)
(* may be past its expiryTime, or the rate limiter of a process exhausted. *)
(***************************************************************************)
EXTENDS Naturals

CONSTANTS
  Requests,   \* one value per HTTP request served
  Instances,  \* the processes of the service
  Pins,       \* the pins that may be drawn
  Devices,    \* MAC addresses
  Nobody,     \* none of them
  Issues      \* how many pins are generated

ASSUME ScannersAssumption ==
  /\ Pins \subseteq Nat /\ Pins # {}
  /\ Issues \in Nat
  /\ Nobody \notin Devices

VARIABLES
  pins,      \* Firestore `pins': the issue that each pin's document holds; 0: none
  issued,    \* how many issues there are
  apikeys,   \* Firestore `apikey': the requests whose keys are stored
  pc,        \* where a request's handler stands
  reply,     \* the status it answered; 0: none yet
  served,    \* the process that serves it
  device,    \* its header macaddr
  pin,       \* the pin that it confirms
  found      \* the issue that it read; 0: none

firestore == <<pins, issued, apikeys>>
caller    == <<served, device>>
scannerVars == <<firestore, pc, reply, caller, pin, found>>

Statuses == {0, 200, 207, 400, 401, 404, 409, 429, 500}

ScannersTypeOK ==
  /\ pins \in [Pins -> 0 .. Issues]
  /\ issued \in 0 .. Issues
  /\ apikeys \in SUBSET Requests
  /\ reply \in [Requests -> Statuses]
  /\ served \in [Requests -> Instances]
  /\ device \in [Requests -> Devices \cup {Nobody}]
  /\ pin \in [Requests -> Pins]
  /\ found \in [Requests -> 0 .. Issues]

ScannersInit ==
  /\ pins = [p \in Pins |-> 0]
  /\ issued = 0
  /\ apikeys = {}
  /\ pc = [r \in Requests |-> "idle"]
  /\ reply = [r \in Requests |-> 0]
  /\ served \in [Requests -> Instances]
  /\ device = [r \in Requests |-> Nobody]
  /\ pin = [r \in Requests |-> CHOOSE p \in Pins : TRUE]
  /\ found = [r \in Requests |-> 0]

Goto(r, stage) == pc' = [pc EXCEPT ![r] = stage]

Answer(r, status) ==
  /\ Goto(r, "answered")
  /\ reply' = [reply EXCEPT ![r] = status]

-----------------------------------------------------------------------------
\* GET /scanner/register: a pin is drawn, whether or not it is in use, and its
\* document overwritten.
GeneratePinAuthenticator(p) ==
  /\ issued < Issues
  /\ issued' = issued + 1
  /\ pins' = [pins EXCEPT ![p] = issued + 1]
  /\ UNCHANGED <<apikeys, pc, reply, caller, pin, found>>

\* POST /scanner/register.  Zero is no pin to this handler; the rate limiter of the
\* process may refuse to try another pin in this minute.
ConfirmRegister(r, p, d) ==
  /\ pc[r] = "idle"
  /\ \/ /\ \/ p = 0 /\ Answer(r, 400)
           \/ p # 0 /\ Answer(r, 429)
        /\ UNCHANGED <<device, pin>>
     \/ /\ p # 0 /\ Goto(r, "readPin") /\ UNCHANGED reply
        /\ device' = [device EXCEPT ![r] = d]
        /\ pin' = [pin EXCEPT ![r] = p]
  /\ UNCHANGED <<firestore, served, found>>

\* checkPinAuthentication reads the document; without one the pin is refused.
\* Whether it has expired is decided here.
ReadPin(r) ==
  /\ pc[r] = "readPin"
  /\ found' = [found EXCEPT ![r] = pins[pin[r]]]
  /\ \/ pins[pin[r]] = 0 /\ Answer(r, 400)
     \/ /\ pins[pin[r]] # 0
        /\ \E stage \in {"deletePin", "deleteStalePin"} : Goto(r, stage)
        /\ UNCHANGED reply
  /\ UNCHANGED <<firestore, caller, pin>>

\* Mutant: the document is only deleted if it has expired.
Kept(r) == IF pc[r] = "deletePin" THEN pins ELSE [pins EXCEPT ![pin[r]] = 0]

\* The documents once request r has deleted its pin's, whoever wrote it.
Deleted(r) == [pins EXCEPT ![pin[r]] = 0]

DeletePin(r) ==
  /\ \/ pc[r] = "deletePin" /\ Goto(r, "generateKey") /\ UNCHANGED reply
     \/ pc[r] = "deleteStalePin" /\ Answer(r, 400)
     \/ pc[r] \in {"deletePin", "deleteStalePin"} /\ Answer(r, 500)   \* the answer is lost
  /\ pins' = Deleted(r)
  /\ UNCHANGED <<issued, apikeys, caller, pin, found>>

GenerateApiKey(r) ==
  /\ pc[r] = "generateKey"
  /\ apikeys' = apikeys \cup {r}
  /\ \E status \in {200, 500} : Answer(r, status)   \* 500: the answer is lost
  /\ UNCHANGED <<pins, issued, caller, pin, found>>

\* A call to Firestore fails without effect.
FirestoreFails(r) ==
  /\ pc[r] \in {"readPin", "deletePin", "deleteStalePin", "generateKey"}
  /\ Answer(r, 500)
  /\ UNCHANGED <<firestore, caller, pin, found>>

\* checkAuthentication: the key that request k made lets device d in, unless it has
\* expired.
CheckAuthentication(k, d) == k \in apikeys /\ device[k] = d

ScannersNext ==
  \/ \E p \in Pins : GeneratePinAuthenticator(p)
  \/ \E r \in Requests :
       \/ \E p \in Pins \cup {0}, d \in Devices : ConfirmRegister(r, p, d)
       \/ ReadPin(r) \/ DeletePin(r) \/ GenerateApiKey(r) \/ FirestoreFails(r)

-----------------------------------------------------------------------------
\* A pin that has made a key is spent: no document holds that issue any more, so
\* a confirmation that begins now makes no second key of it.  (Two that read it
\* before either deleted it do.)
\* (checkPinAuthentication deletes before generateApiKey is called)
PinsAreSpent ==
  \A r \in apikeys : pins[pin[r]] # found[r]
=============================================================================
