------------------------- MODULE ControlCallsProofs -------------------------
(***************************************************************************)
(* A theorem about ControlCalls, for any clients, any selection of the     *)
(* methods and any number of calls.                                        *)
(*                                                                         *)
(* A method returns in one step with all of its response.  What has to be  *)
(* shown is what the responses of that step are made of, and that nothing  *)
(* disturbs them until the client's next call.                             *)
(***************************************************************************)
EXTENDS ControlCalls, TLAPS

\* A constant of the code or a parameter of the call is not left over from before.
LEMMA AbsentIsNew ==
    \A m : \A f \in Fields(m) : Absent(m)[f] # "before"
<1> SUFFICES ASSUME NEW m, NEW f \in DOMAIN Absent(m)
             PROVE  Absent(m)[f] # "before"
    BY DEF Fields
<1>1. CASE m = "GetNetStatus"
    BY <1>1 DEF Absent, NetStatus
<1>2. CASE m = "GetIRDBManufacturers"
    BY <1>2 DEF Absent, IRDBManufacturers
<1>3. CASE m = "GetIRDBModels"
    BY <1>3 DEF Absent, IRDBModels
<1>4. CASE m = "GetIRCodesByAutoLookup"
    BY <1>4 DEF Absent, IRCodesByAutoLookup
<1>5. CASE m = "GetIRCodesByNames"
    BY <1>5 DEF Absent, IRCodesByNames
<1>6. CASE m = "GetLastKeypressSource"
    BY <1>6 DEF Absent, LastKeypressSource
<1>7. CASE m = "StartFirmwareUpdate"
    BY <1>7 DEF Absent, FirmwareUpdateStarted
<1>8. CASE m = "StatusFirmwareUpdate"
    BY <1>8 DEF Absent, FirmwareUpdateStatus
<1>9. CASE m \notin {"GetNetStatus", "GetIRDBManufacturers", "GetIRDBModels",
                     "GetIRCodesByAutoLookup", "GetIRCodesByNames",
                     "GetLastKeypressSource", "StartFirmwareUpdate",
                     "StatusFirmwareUpdate"}
    BY <1>9 DEF Absent
<1> QED
    BY <1>1, <1>2, <1>3, <1>4, <1>5, <1>6, <1>7, <1>8, <1>9

\* Without an answer every method but one replaces what it was handed.
LEMMA FailedIsDefined ==
    ASSUME NEW m, NEW f \in Fields(m), Failed(m)[f] = "before"
    PROVE  m = "GetLastKeypressSource"
BY AbsentIsNew DEF Failed

\* An answer leaves no field as it was.
LEMMA FilledIsDefined ==
    ASSUME NEW m, NEW labels, NEW f \in Fields(m)
    PROVE  Filled(m, labels)[f] # "before"
BY AbsentIsNew DEF Filled

-----------------------------------------------------------------------------
\* What the property says of one client.
Defined(c) ==
    pc[c] = "returned" =>
        \A f \in Fields(method[c]) : response[c][f] = "before" =>
            method[c] = "GetLastKeypressSource" /\ ~success[c]

IInv ==
    /\ DOMAIN pc = Clients
    /\ DOMAIN method = Clients
    /\ DOMAIN success = Clients
    /\ DOMAIN response = Clients
    /\ \A c \in Clients : Defined(c)

\* From here on m is the method that client c called last.
Called(c, m) ==
    /\ DOMAIN method' = Clients
    /\ method'[c] = m
    /\ \A d \in Clients \ {c} : method'[d] = method[d]

\* Client c's method returns, and nobody else's is concerned.
LEMMA ReturnIInv ==
    ASSUME IInv, NEW c \in Clients, NEW ok \in BOOLEAN, NEW fields, NEW m,
           Return(c, ok, fields), Called(c, m),
           \A f \in Fields(m) : fields[f] = "before" =>
               m = "GetLastKeypressSource" /\ ok = FALSE
    PROVE  IInv'
<1>1. Defined(c)'
    BY DEF Called, Return, Defined, IInv
<1>2. \A d \in Clients \ {c} : Defined(d)'
    BY DEF Called, Return, Defined, IInv
<1> QED
    BY <1>1, <1>2 DEF Called, Return, IInv

\* A method that returns without an answer.
LEMMA FailureIInv == ASSUME IInv, NEW c \in Clients, CallFails(c) PROVE IInv'
<1>1. Called(c, method[c])
    BY DEF CallFails, Called, IInv
<1>2. Return(c, FALSE, Failed(method[c]))
    BY DEF CallFails
<1>3. \A f \in Fields(method[c]) :
         Failed(method[c])[f] = "before" => method[c] = "GetLastKeypressSource"
    BY FailedIsDefined
<1> QED
    BY <1>1, <1>2, <1>3, ReturnIInv

\* A method that is called returns at once, or has not returned.
LEMMA CallIInv == ASSUME IInv, NEW c \in Clients, Call(c) PROVE IInv'
<1>1. CASE GetApiVersionNumber(c)
  <2>1. Fields("GetApiVersionNumber") = {}
      BY DEF Fields, Absent
  <2> QED
      BY <1>1, <2>1, ReturnIInv DEF GetApiVersionNumber, Enter, Called, IInv
<1>2. ASSUME NEW m, NEW params, Reject(c, m, params) PROVE IInv'
  <2>1. Called(c, m)
      BY <1>2 DEF Reject, Enter, Called, IInv
  <2>2. Return(c, FALSE, Failed(m))
      BY <1>2 DEF Reject
  <2>3. \A f \in Fields(m) : Failed(m)[f] = "before" => m = "GetLastKeypressSource"
      BY FailedIsDefined
  <2> QED
      BY <2>1, <2>2, <2>3, ReturnIInv
<1>3. ASSUME NEW m, NEW params, Accept(c, m, params) PROVE IInv'
    BY <1>3 DEF Accept, Enter, IInv, Defined
<1> QED
    BY <1>1, <1>2, <1>3 DEF Call

LEMMA StepIInv == ASSUME IInv, NEW c \in Clients, Step(c) PROVE IInv'
<1>1. CASE AllocationFails(c)
    BY <1>1, FailureIInv DEF AllocationFails
<1>2. CASE Send(c)
    BY <1>2 DEF Send, IInv, Defined
<1> QED
    BY <1>1, <1>2 DEF Step

LEMMA AnswerIInv ==
    ASSUME IInv, NEW c \in Clients, NEW ok \in BOOLEAN, NEW labels,
           Answer(c, ok, labels)
    PROVE  IInv'
<1>1. Called(c, method[c])
    BY DEF Answer, Called, IInv
<1>2. Return(c, ok, Filled(method[c], labels))
    BY DEF Answer
<1>3. \A f \in Fields(method[c]) : Filled(method[c], labels)[f] # "before"
    BY FilledIsDefined
<1> QED
    BY <1>1, <1>2, <1>3, ReturnIInv

LEMMA Induction == Spec => []IInv
<1>1. Init => IInv
    BY DEF Init, IInv, Defined
<1>2. IInv /\ [Next]_vars => IInv'
  <2> SUFFICES ASSUME IInv, [Next]_vars PROVE IInv'
      OBVIOUS
  <2>1. ASSUME NEW c \in Clients, Call(c) PROVE IInv'
      BY <2>1, CallIInv
  <2>2. ASSUME NEW c \in Clients, Step(c) PROVE IInv'
      BY <2>2, StepIInv
  <2>3. ASSUME NEW c \in Clients, BusError(c) \/ Timeout(c) PROVE IInv'
      BY <2>3, FailureIInv DEF BusError, Timeout
  <2>4. ASSUME NEW c \in Clients, NEW ok \in BOOLEAN, NEW labels,
               Answer(c, ok, labels)
        PROVE  IInv'
      BY <2>4, AnswerIInv
  <2>5. CASE UNCHANGED vars
      BY <2>5 DEF vars, IInv, Defined
  <2> QED
      BY <2>1, <2>2, <2>3, <2>4, <2>5 DEF Next
<1> QED
    BY <1>1, <1>2, PTL DEF Spec

\* No method but a failing GetLastKeypressSource returns a field as the client
\* handed it in, on whatever way out.
THEOREM ResponsesAreDefined == Spec => []ResponseIsDefined
<1>1. IInv => ResponseIsDefined
    BY DEF IInv, Defined, ResponseIsDefined
<1> QED
    BY <1>1, Induction, PTL

=============================================================================
