------------------------ MODULE AlertLifecycleProofs ------------------------
(***************************************************************************)
(* Acknowledging and resolving, for any number of requests and users.      *)
(* That the stamps explain the state is not inductive: a column is written *)
(* only if it differs from the row the session read, so the row may have   *)
(* to supply what the session did not write.  ReadIsOlder says that it     *)
(* can, because what a session read is a past of the row.                  *)
(***************************************************************************)
EXTENDS MCAlertLifecycle, TLAPS

\* What a request waiting for its commit has read: a row that has since only gained
\* stamps, and that carries no stamp of the request itself.
ReadIsOlder(r) ==
    /\ call[r] \in Calls
    /\ call[r].own
    /\ read[r] \in Rows
    /\ read[r].state # "open" => row.state # "open"
    /\ read[r].ack_by # None => row.ack_by # None
    /\ read[r].ack_at # r
    /\ read[r].resolved_at # r

Inv ==
    /\ TypeOK
    /\ StampsExplainState
    /\ OnlyOwnRequestsStamp
    /\ \A r \in Requests : phase[r] = "committing" => ReadIsOlder(r)

-----------------------------------------------------------------------------

LEMMA InitInv == Init => Inv
<1> SUFFICES ASSUME Init
             PROVE  Inv
    OBVIOUS
<1>1. row.state = "open" /\ row.ack_by = None /\ row.ack_at = None /\ row.resolved_at = None
    BY DEF Init, Columns
<1>2. row = [state |-> "open", ack_by |-> None, ack_at |-> None, resolved_at |-> None]
    BY DEF Init, Columns
<1>3. row \in Rows
    BY <1>2 DEF Rows
<1>4. TypeOK
    BY <1>3 DEF Init, TypeOK
<1>5. StampsExplainState
    BY <1>1 DEF StampsExplainState
<1>6. OnlyOwnRequestsStamp
    BY <1>1, LifecycleAssumption DEF OnlyOwnRequestsStamp
<1>7. \A r \in Requests : phase[r] # "committing"
    BY DEF Init
<1>. QED BY <1>4, <1>5, <1>6, <1>7 DEF Inv

LEMMA LoadInv ==
    ASSUME Inv, NEW r \in Requests, NEW c \in Calls, Load(r, c)
    PROVE  Inv'
<1>1. /\ phase[r] = "new" /\ row' = row /\ latest' = latest
      /\ call' = [call EXCEPT ![r] = c]
      /\ read' = [read EXCEPT ![r] = row]
      /\ phase' = [phase EXCEPT ![r] = IF c.own THEN "committing" ELSE "denied"]
    BY DEF Load
<1>2. TypeOK /\ StampsExplainState /\ OnlyOwnRequestsStamp
    BY DEF Inv
<1>3. TypeOK'
    BY <1>1, <1>2 DEF TypeOK
<1>4. StampsExplainState'
    BY <1>1, <1>2 DEF StampsExplainState
<1>5. row.ack_at # r /\ row.resolved_at # r
    BY <1>1, <1>2 DEF OnlyOwnRequestsStamp
<1>6. OnlyOwnRequestsStamp'
    BY <1>1, <1>2, <1>5 DEF OnlyOwnRequestsStamp, TypeOK
<1>7. ASSUME NEW s \in Requests, phase'[s] = "committing"
      PROVE  ReadIsOlder(s)'
  <2>1. CASE s = r
      BY <1>1, <1>2, <1>5, <1>7, <2>1 DEF ReadIsOlder, TypeOK
  <2>2. CASE s # r
      BY <1>1, <1>2, <1>7, <2>2 DEF ReadIsOlder, TypeOK, Inv
  <2>. QED BY <2>1, <2>2
<1>. QED BY <1>3, <1>4, <1>6, <1>7 DEF Inv

\* What the columns of the row are after a commit, by the kind of the request.
LEMMA WrittenColumns ==
    ASSUME Inv, NEW r \in Requests, phase[r] = "committing"
    PROVE  /\ Written(r) \in Rows
           /\ call[r].kind = "ack" =>
                 /\ Written(r).state = (IF read[r].state = "acked" THEN row.state ELSE "acked")
                 /\ Written(r).ack_by = (IF read[r].ack_by = call[r].user
                                         THEN row.ack_by ELSE call[r].user)
                 /\ Written(r).ack_at = r
                 /\ Written(r).resolved_at = row.resolved_at
           /\ call[r].kind # "ack" =>
                 /\ Written(r).state = (IF read[r].state = "resolved"
                                        THEN row.state ELSE "resolved")
                 /\ Written(r).ack_by = row.ack_by
                 /\ Written(r).ack_at = row.ack_at
                 /\ Written(r).resolved_at = r
<1>1. row \in Rows /\ ReadIsOlder(r)
    BY DEF Inv, TypeOK
<1>2. read[r] \in Rows /\ call[r] \in Calls /\ read[r].ack_at # r /\ read[r].resolved_at # r
    BY <1>1 DEF ReadIsOlder
<1>3. /\ Written(r) = [c \in Columns |-> Written(r)[c]]
      /\ \A c \in Columns :
            Written(r)[c] = IF Changed(r)[c] # read[r][c] THEN Changed(r)[c] ELSE row[c]
    BY DEF Written
<1>4. CASE call[r].kind = "ack"
  <2>1. /\ Changed(r).state = "acked" /\ Changed(r).ack_by = call[r].user
        /\ Changed(r).ack_at = r /\ Changed(r).resolved_at = read[r].resolved_at
      BY <1>2, <1>4 DEF Changed, Rows
  <2>2. /\ Written(r).state = (IF read[r].state = "acked" THEN row.state ELSE "acked")
        /\ Written(r).ack_by = (IF read[r].ack_by = call[r].user
                                THEN row.ack_by ELSE call[r].user)
        /\ Written(r).ack_at = r
        /\ Written(r).resolved_at = row.resolved_at
      BY <1>2, <1>3, <2>1 DEF Columns
  <2>3. Written(r) \in Rows
      BY <1>1, <1>2, <1>3, <2>2 DEF Columns, Rows, Calls
  <2>. QED BY <1>4, <2>2, <2>3
<1>5. CASE call[r].kind # "ack"
  <2>1. /\ Changed(r).state = "resolved" /\ Changed(r).ack_by = read[r].ack_by
        /\ Changed(r).ack_at = read[r].ack_at /\ Changed(r).resolved_at = r
      BY <1>2, <1>5 DEF Changed, Rows
  <2>2. /\ Written(r).state = (IF read[r].state = "resolved" THEN row.state ELSE "resolved")
        /\ Written(r).ack_by = row.ack_by
        /\ Written(r).ack_at = row.ack_at
        /\ Written(r).resolved_at = r
      BY <1>2, <1>3, <2>1 DEF Columns
  <2>3. Written(r) \in Rows
      BY <1>1, <1>2, <1>3, <2>2 DEF Columns, Rows, Calls
  <2>. QED BY <1>5, <2>2, <2>3
<1>. QED BY <1>4, <1>5

LEMMA CommitInv ==
    ASSUME Inv, NEW r \in Requests, Commit(r)
    PROVE  Inv'
<1>1. /\ phase[r] = "committing" /\ row' = Written(r) /\ latest' = r
      /\ phase' = [phase EXCEPT ![r] = "done"]
      /\ call' = call /\ read' = read
    BY DEF Commit
<1>2. TypeOK /\ StampsExplainState /\ OnlyOwnRequestsStamp /\ ReadIsOlder(r)
    BY <1>1 DEF Inv
<1>3. row' \in Rows
    BY <1>1, WrittenColumns
<1>4. TypeOK'
    BY <1>1, <1>2, <1>3 DEF TypeOK
<1>5. call[r].user # None /\ call[r].own /\ r # None
    BY <1>2, LifecycleAssumption DEF ReadIsOlder, Calls
<1>6. StampsExplainState'
  <2>1. CASE call[r].kind = "ack"
    <3>1. /\ row'.state = (IF read[r].state = "acked" THEN row.state ELSE "acked")
          /\ row'.ack_by = (IF read[r].ack_by = call[r].user THEN row.ack_by
                            ELSE call[r].user)
          /\ row'.ack_at = r /\ row'.resolved_at = row.resolved_at
        BY <1>1, <2>1, WrittenColumns
    <3>. QED BY <1>2, <1>5, <3>1 DEF StampsExplainState, ReadIsOlder
  <2>2. CASE call[r].kind # "ack"
    <3>1. /\ row'.state = (IF read[r].state = "resolved" THEN row.state ELSE "resolved")
          /\ row'.ack_by = row.ack_by /\ row'.ack_at = row.ack_at /\ row'.resolved_at = r
        BY <1>1, <2>2, WrittenColumns
    <3>. QED BY <1>2, <1>5, <3>1 DEF StampsExplainState, ReadIsOlder
  <2>. QED BY <2>1, <2>2
<1>7. /\ row'.ack_at \in {row.ack_at, r}
      /\ row'.resolved_at \in {row.resolved_at, r}
    BY <1>1, WrittenColumns
<1>8. OnlyOwnRequestsStamp'
    BY <1>1, <1>2, <1>5, <1>7 DEF OnlyOwnRequestsStamp, TypeOK
<1>9. ASSUME NEW s \in Requests, phase'[s] = "committing"
      PROVE  ReadIsOlder(s)'
  <2>1. s # r /\ phase[s] = "committing"
      BY <1>1, <1>2, <1>9 DEF TypeOK
  <2>2. ReadIsOlder(s)
      BY <2>1 DEF Inv
  <2>3. /\ row.state # "open" => row'.state # "open"
        /\ row.ack_by # None => row'.ack_by # None
      BY <1>1, <1>5, WrittenColumns
  <2>. QED BY <1>1, <2>2, <2>3 DEF ReadIsOlder
<1>. QED BY <1>4, <1>6, <1>8, <1>9 DEF Inv

LEMMA FailInv ==
    ASSUME Inv, NEW r \in Requests, Fail(r)
    PROVE  Inv'
<1>1. /\ phase[r] = "committing" /\ UNCHANGED <<row, call, read, latest>>
      /\ phase' = [phase EXCEPT ![r] = "failed"]
    BY DEF Fail
<1>2. TypeOK' /\ StampsExplainState'
    BY <1>1 DEF Inv, TypeOK, StampsExplainState
<1>3. OnlyOwnRequestsStamp'
    BY <1>1 DEF Inv, TypeOK, OnlyOwnRequestsStamp
<1>4. \A s \in Requests : phase'[s] = "committing" => ReadIsOlder(s)'
    BY <1>1 DEF Inv, TypeOK, ReadIsOlder
<1>. QED BY <1>2, <1>3, <1>4 DEF Inv

LEMMA StutterInv ==
    ASSUME Inv, UNCHANGED vars
    PROVE  Inv'
    BY DEF Inv, vars, TypeOK, StampsExplainState, OnlyOwnRequestsStamp, ReadIsOlder

LEMMA StepInv == Inv /\ [Next]_vars => Inv'
    BY LoadInv, CommitInv, FailInv, StutterInv DEF Next, Quiet

\* A step empties no stamp: only Commit writes the row.
LEMMA StepKeeps == Inv /\ [Next]_vars => [KeepsStamps]_vars
<1> SUFFICES ASSUME Inv, Next, vars' # vars
             PROVE  KeepsStamps
    BY DEF vars
<1>1. CASE row' = row
    BY <1>1 DEF KeepsStamps
<1>2. CASE row' # row
  <2>1. PICK r \in Requests : Commit(r)
      BY <1>2 DEF Next, Load, Fail, Quiet, vars
  <2>2. phase[r] = "committing" /\ row' = Written(r) /\ r # None
      BY <2>1, LifecycleAssumption DEF Commit
  <2>. QED BY <2>2, WrittenColumns DEF KeepsStamps
<1>. QED BY <1>1, <1>2

-----------------------------------------------------------------------------

LEMMA Invariance == Spec => []Inv
    BY InitInv, StepInv, PTL DEF Spec

\* Every variable of the requests and of the row holds a value of its type.
THEOREM TypeCorrect == Spec => []TypeOK
<1>1. Inv => TypeOK
    BY DEF Inv
<1>. QED BY Invariance, <1>1, PTL

\* However requests overlap, the state of the alert has the stamps that explain it.
THEOREM StateIsExplained == Spec => []StampsExplainState
<1>1. Inv => StampsExplainState
    BY DEF Inv
<1>. QED BY Invariance, <1>1, PTL

\* A refused or failed request leaves no trace in the row.
THEOREM OnlyOwnStamps == Spec => []OnlyOwnRequestsStamp
<1>1. Inv => OnlyOwnRequestsStamp
    BY DEF Inv
<1>. QED BY Invariance, <1>1, PTL

\* The two together, for any number of overlapping requests.
THEOREM StampsWarranted == Spec => []StampsAreWarranted
<1>1. Inv => StampsAreWarranted
    BY DEF Inv, StampsAreWarranted
<1>. QED BY Invariance, <1>1, PTL

\* No stamp is lost, whatever a late request had read.
THEOREM StampsKept == Spec => StampsAreKept
    BY Invariance, StepKeeps, PTL DEF Spec, StampsAreKept

-----------------------------------------------------------------------------
\* A request that meets no other: what it read is still the row when it commits, and
\* the row is then what it returned.

Undisturbed(r) ==
    /\ phase[r] = "committing" => Committing = {r} /\ read[r] = row
    /\ latest = r => row = Changed(r)

LoneInv ==
    /\ Inv
    /\ \A r \in Requests :
          /\ latest = r => phase[r] = "done" /\ call[r] \in Calls /\ read[r] \in Rows
          /\ r \notin overlapped => Undisturbed(r)

LEMMA LoneInitInv == MCInit => LoneInv
    BY InitInv, LifecycleAssumption DEF MCInit, Init, LoneInv, Undisturbed

\* A commit that finds the row as it was read leaves what it returned.
LEMMA WrittenIsChanged ==
    ASSUME Inv, NEW r \in Requests, phase[r] = "committing", read[r] = row
    PROVE  Written(r) = Changed(r)
<1>1. row \in Rows /\ ReadIsOlder(r)
    BY DEF Inv, TypeOK
<1>2. row = [state |-> row.state, ack_by |-> row.ack_by,
             ack_at |-> row.ack_at, resolved_at |-> row.resolved_at]
    BY <1>1 DEF Rows
<1>3. Written(r) \in Rows
    BY WrittenColumns
<1>4. Written(r) = [state |-> Written(r).state, ack_by |-> Written(r).ack_by,
                    ack_at |-> Written(r).ack_at, resolved_at |-> Written(r).resolved_at]
    BY <1>3 DEF Rows
<1>5. CASE call[r].kind = "ack"
  <2>1. Changed(r) = [state |-> "acked", ack_by |-> call[r].user,
                      ack_at |-> r, resolved_at |-> row.resolved_at]
      BY <1>2, <1>5 DEF Changed
  <2>2. /\ Written(r).state = "acked" /\ Written(r).ack_by = call[r].user
        /\ Written(r).ack_at = r /\ Written(r).resolved_at = row.resolved_at
      BY <1>5, WrittenColumns
  <2>. QED BY <1>4, <2>1, <2>2
<1>6. CASE call[r].kind # "ack"
  <2>1. Changed(r) = [state |-> "resolved", ack_by |-> row.ack_by,
                      ack_at |-> row.ack_at, resolved_at |-> r]
      BY <1>2, <1>6 DEF Changed
  <2>2. /\ Written(r).state = "resolved" /\ Written(r).ack_by = row.ack_by
        /\ Written(r).ack_at = row.ack_at /\ Written(r).resolved_at = r
      BY <1>6, WrittenColumns
  <2>. QED BY <1>4, <2>1, <2>2
<1>. QED BY <1>5, <1>6

LEMMA LoneStepInv == LoneInv /\ [MCNext]_mcVars => LoneInv'
<1> SUFFICES ASSUME LoneInv, [MCNext]_mcVars
             PROVE  LoneInv'
    OBVIOUS
<1>1. Inv /\ Inv' /\ TypeOK
    BY StepInv DEF LoneInv, Inv, MCNext, mcVars
<1>2. ASSUME NEW r \in Requests, r \notin overlapped', phase'[r] = "committing"
      PROVE  Committing' = {r} /\ r \notin overlapped
  <2>1. CASE MCNext
      BY <1>2, <2>1 DEF MCNext, Committing
  <2>2. CASE UNCHANGED mcVars
      BY <1>2, <2>2 DEF mcVars, vars, LoneInv, Undisturbed, Committing
  <2>. QED BY <2>1, <2>2
<1>3. ASSUME NEW r \in Requests, r \notin overlapped'
      PROVE  r \notin overlapped /\ Undisturbed(r)
    BY <1>3 DEF LoneInv, MCNext, mcVars
<1>4. ASSUME NEW q \in Requests, NEW c \in Calls, Load(q, c), NEW r \in Requests
      PROVE  /\ latest' = r => phase'[r] = "done" /\ call'[r] \in Calls /\ read'[r] \in Rows
             /\ r \notin overlapped' => Undisturbed(r)'
  <2>1. /\ phase[q] = "new" /\ row' = row /\ latest' = latest
        /\ call' = [call EXCEPT ![q] = c]
        /\ read' = [read EXCEPT ![q] = row]
        /\ phase' = [phase EXCEPT ![q] = IF c.own THEN "committing" ELSE "denied"]
      BY <1>4 DEF Load
  <2>2. latest = r => phase[r] = "done" /\ call[r] \in Calls /\ read[r] \in Rows
      BY DEF LoneInv
  <2>3. CASE r = q
    <3>1. latest # r
        BY <2>1, <2>2, <2>3
    <3>2. read'[r] = row'
        BY <1>1, <2>1, <2>3 DEF TypeOK
    <3>. QED BY <1>2, <2>1, <3>1, <3>2 DEF Undisturbed
  <2>4. CASE r # q
    <3>1. phase'[r] = phase[r] /\ call'[r] = call[r] /\ read'[r] = read[r]
        BY <1>1, <2>1, <2>4 DEF TypeOK
    <3>2. Changed(r)' = Changed(r)
        BY <3>1 DEF Changed
    <3>. QED BY <1>2, <1>3, <2>1, <2>2, <3>1, <3>2 DEF Undisturbed
  <2>. QED BY <2>3, <2>4
<1>5. ASSUME NEW q \in Requests, Commit(q), NEW r \in Requests
      PROVE  /\ latest' = r => phase'[r] = "done" /\ call'[r] \in Calls /\ read'[r] \in Rows
             /\ r \notin overlapped' => Undisturbed(r)'
  <2>1. /\ phase[q] = "committing" /\ row' = Written(q) /\ latest' = q
        /\ phase' = [phase EXCEPT ![q] = "done"]
        /\ call' = call /\ read' = read
      BY <1>5 DEF Commit
  <2>2. CASE r = q
    <3>1. phase'[r] = "done" /\ call[r] \in Calls /\ read[r] \in Rows
        BY <1>1, <2>1, <2>2 DEF TypeOK, Inv, ReadIsOlder
    <3>2. r \notin overlapped' => row' = Changed(r)'
        BY <1>1, <1>3, <2>1, <2>2, WrittenIsChanged DEF Undisturbed, Changed
    <3>. QED BY <2>1, <3>1, <3>2 DEF Undisturbed
  <2>3. CASE r # q
    <3>1. r \notin overlapped' => phase'[r] # "committing"
        BY <1>1, <1>3, <2>1, <2>3 DEF TypeOK, Undisturbed, Committing
    <3>. QED BY <2>1, <2>3, <3>1 DEF Undisturbed
  <2>. QED BY <2>2, <2>3
<1>6. ASSUME \/ \E q \in Requests : Fail(q)
             \/ UNCHANGED vars,
             NEW r \in Requests
      PROVE  /\ latest' = r => phase'[r] = "done" /\ call'[r] \in Calls /\ read'[r] \in Rows
             /\ r \notin overlapped' => Undisturbed(r)'
  <2>1. /\ row' = row /\ latest' = latest /\ call' = call /\ read' = read
        /\ phase'[r] = "committing" => phase[r] = "committing"
        /\ phase[r] = "done" => phase'[r] = "done"
      BY <1>1, <1>6 DEF Fail, vars, TypeOK
  <2>2. latest = r => phase[r] = "done" /\ call[r] \in Calls /\ read[r] \in Rows
      BY DEF LoneInv
  <2>3. Changed(r)' = Changed(r)
      BY <2>1 DEF Changed
  <2>. QED BY <1>2, <1>3, <2>1, <2>2, <2>3 DEF Undisturbed
<1>. QED BY <1>1, <1>4, <1>5, <1>6 DEF LoneInv, MCNext, mcVars, Next, Quiet

\* A request that met no other is obeyed and answered truthfully, even on a row that
\* overlapping ones left as a mixture of their columns.
THEOREM LoneRequestObeyed == MCSpec => []LoneRequestIsObeyed
<1>1. LoneInv => LoneRequestIsObeyed
  <2> SUFFICES ASSUME LoneInv, NEW r \in Requests, latest = r, r \notin overlapped
               PROVE  /\ row = Changed(r)
                      /\ row.state = (IF call[r].kind = "ack" THEN "acked" ELSE "resolved")
      BY DEF LoneRequestIsObeyed
  <2>1. row = Changed(r) /\ read[r] \in Rows
      BY DEF LoneInv, Undisturbed
  <2>. QED BY <2>1 DEF Changed, Rows
<1>. QED BY <1>1, LoneInitInv, LoneStepInv, PTL DEF MCSpec

=============================================================================
