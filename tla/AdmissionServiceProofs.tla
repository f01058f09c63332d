----------------------- MODULE AdmissionServiceProofs -----------------------
(***************************************************************************)
(* What AdmissionService keeps in its order, for any number of loads and   *)
(* of runs, and whatever step fails.                                       *)
(***************************************************************************)
EXTENDS AdmissionService, TLAPS

(* The stages at which a service owns the path, its ledger is open, and    *)
(* its ledger is being closed.                                             *)
Owning == {"asserting", "opening", "listing", "walking", "reading", "strict",
           "cleanup-close", "cleanup-release", "draining", "closing", "releasing"}
Opened == {"listing", "walking", "reading", "strict", "draining"}
Closing == {"cleanup-close", "closing"}

StagesOwn == \A s \in Services : stage[s] \in Owning => owner = s

LedgerFollowsStage ==
  \A s \in Services :
    /\ ledger[s] = "open" <=> stage[s] \in Opened
    /\ ledger[s] = "closing" <=> stage[s] \in Closing

PolicyIsStrict == \A s \in Services : policy = s => stage[s] = "strict"

PermitsFollowStage ==
  \A r \in Runs : permit[r] # NoService => stage[permit[r]] \in {"strict", "draining"}

OwnerOwns ==
  \A s \in Services :
    owner = s => stage[s] \in Owning \/ errors[s] \cap {"assertHeld", "release"} # {}

IInv ==
  /\ TypeOK /\ StagesOwn /\ LedgerFollowsStage /\ PolicyIsStrict
  /\ PermitsFollowStage /\ OwnerOwns

-----------------------------------------------------------------------------
(* Every step keeps the invariant.                                         *)
LEMMA StepKeepsInv == IInv /\ [Next]_vars => IInv'
<1> SUFFICES ASSUME IInv, [Next]_vars PROVE IInv'
  OBVIOUS
<1> USE ServicesAssumption
<1> USE DEF IInv
<1>1. ASSUME NEW s \in Services, Preflight(s) PROVE IInv'
  <2>1. TypeOK'
    BY <1>1
    DEF TypeOK, Starting, Cleaning, Disposing, Finished, Stages, Steps, Phases,
        Preflight, At, Failed, runtime
  <2>2. StagesOwn'
    BY <1>1 DEF TypeOK, StagesOwn, Owning, Preflight, At, Failed, runtime
  <2>3. LedgerFollowsStage'
    BY <1>1
    DEF TypeOK, LedgerFollowsStage, Opened, Closing, Preflight, At, Failed,
        runtime
  <2>4. PolicyIsStrict'
    BY <1>1 DEF TypeOK, PolicyIsStrict, Preflight, At, Failed, runtime
  <2>5. PermitsFollowStage'
    BY <1>1 DEF TypeOK, PermitsFollowStage, Preflight, At, Failed, runtime
  <2>6. OwnerOwns'
    BY <1>1
    DEF TypeOK, OwnerOwns, StagesOwn, Owning, Steps, Preflight, At, Failed,
        runtime
  <2> QED BY <2>1, <2>2, <2>3, <2>4, <2>5, <2>6
<1>2. ASSUME NEW s \in Services, AcquireGuard(s) PROVE IInv'
  <2>1. TypeOK'
    BY <1>2
    DEF TypeOK, Starting, Cleaning, Disposing, Finished, Stages, Steps, Phases,
        AcquireGuard, At, Failed, runtime
  <2>2. StagesOwn'
    BY <1>2 DEF TypeOK, StagesOwn, Owning, AcquireGuard, At, Failed, runtime
  <2>3. LedgerFollowsStage'
    BY <1>2
    DEF TypeOK, LedgerFollowsStage, Opened, Closing, AcquireGuard, At, Failed,
        runtime
  <2>4. PolicyIsStrict'
    BY <1>2 DEF TypeOK, PolicyIsStrict, AcquireGuard, At, Failed, runtime
  <2>5. PermitsFollowStage'
    BY <1>2 DEF TypeOK, PermitsFollowStage, AcquireGuard, At, Failed, runtime
  <2>6. OwnerOwns'
    BY <1>2
    DEF TypeOK, OwnerOwns, StagesOwn, Owning, Steps, AcquireGuard, At, Failed,
        runtime
  <2> QED BY <2>1, <2>2, <2>3, <2>4, <2>5, <2>6
<1>3. ASSUME NEW s \in Services, AssertHeld(s) PROVE IInv'
  <2>1. TypeOK'
    BY <1>3
    DEF TypeOK, Starting, Cleaning, Disposing, Finished, Stages, Steps, Phases,
        AssertHeld, At, Failed, runtime
  <2>2. StagesOwn'
    BY <1>3 DEF TypeOK, StagesOwn, Owning, AssertHeld, At, Failed, runtime
  <2>3. LedgerFollowsStage'
    BY <1>3
    DEF TypeOK, LedgerFollowsStage, Opened, Closing, AssertHeld, At, Failed,
        runtime
  <2>4. PolicyIsStrict'
    BY <1>3 DEF TypeOK, PolicyIsStrict, AssertHeld, At, Failed, runtime
  <2>5. PermitsFollowStage'
    BY <1>3 DEF TypeOK, PermitsFollowStage, AssertHeld, At, Failed, runtime
  <2>6. OwnerOwns'
    BY <1>3
    DEF TypeOK, OwnerOwns, StagesOwn, Owning, Steps, AssertHeld, At, Failed,
        runtime
  <2> QED BY <2>1, <2>2, <2>3, <2>4, <2>5, <2>6
<1>4. ASSUME NEW s \in Services, OpenLedger(s) PROVE IInv'
  <2>1. TypeOK'
    BY <1>4
    DEF TypeOK, Starting, Cleaning, Disposing, Finished, Stages, Steps, Phases,
        OpenLedger, At, Failed, runtime
  <2>2. StagesOwn'
    BY <1>4 DEF TypeOK, StagesOwn, Owning, OpenLedger, At, Failed, runtime
  <2>3. LedgerFollowsStage'
    BY <1>4
    DEF TypeOK, LedgerFollowsStage, Opened, Closing, OpenLedger, At, Failed,
        runtime
  <2>4. PolicyIsStrict'
    BY <1>4 DEF TypeOK, PolicyIsStrict, OpenLedger, At, Failed, runtime
  <2>5. PermitsFollowStage'
    BY <1>4 DEF TypeOK, PermitsFollowStage, OpenLedger, At, Failed, runtime
  <2>6. OwnerOwns'
    BY <1>4
    DEF TypeOK, OwnerOwns, StagesOwn, Owning, Steps, OpenLedger, At, Failed,
        runtime
  <2> QED BY <2>1, <2>2, <2>3, <2>4, <2>5, <2>6
<1>5. ASSUME NEW s \in Services, ListSessions(s) PROVE IInv'
  <2>1. TypeOK'
    BY <1>5
    DEF TypeOK, Starting, Cleaning, Disposing, Finished, Stages, Steps, Phases,
        ListSessions, CleanUp, At, Failed, runtime
  <2>2. StagesOwn'
    BY <1>5 DEF TypeOK, StagesOwn, Owning, ListSessions, CleanUp, At, Failed, runtime
  <2>3. LedgerFollowsStage'
    BY <1>5
    DEF TypeOK, LedgerFollowsStage, Opened, Closing, ListSessions, CleanUp, At,
        Failed, runtime
  <2>4. PolicyIsStrict'
    BY <1>5 DEF TypeOK, PolicyIsStrict, ListSessions, CleanUp, At, Failed, runtime
  <2>5. PermitsFollowStage'
    BY <1>5 DEF TypeOK, PermitsFollowStage, ListSessions, CleanUp, At, Failed, runtime
  <2>6. OwnerOwns'
    BY <1>5
    DEF TypeOK, OwnerOwns, StagesOwn, Owning, Steps, ListSessions, CleanUp, At,
        Failed, runtime
  <2> QED BY <2>1, <2>2, <2>3, <2>4, <2>5, <2>6
<1>6. ASSUME NEW s \in Services, WalkHeaders(s) PROVE IInv'
  <2>1. TypeOK'
    BY <1>6
    DEF TypeOK, Starting, Cleaning, Disposing, Finished, Stages, Steps, Phases,
        WalkHeaders, CleanUp, At, Failed, runtime
  <2>2. StagesOwn'
    BY <1>6 DEF TypeOK, StagesOwn, Owning, WalkHeaders, CleanUp, At, Failed, runtime
  <2>3. LedgerFollowsStage'
    BY <1>6
    DEF TypeOK, LedgerFollowsStage, Opened, Closing, WalkHeaders, CleanUp, At,
        Failed, runtime
  <2>4. PolicyIsStrict'
    BY <1>6 DEF TypeOK, PolicyIsStrict, WalkHeaders, CleanUp, At, Failed, runtime
  <2>5. PermitsFollowStage'
    BY <1>6 DEF TypeOK, PermitsFollowStage, WalkHeaders, CleanUp, At, Failed, runtime
  <2>6. OwnerOwns'
    BY <1>6
    DEF TypeOK, OwnerOwns, StagesOwn, Owning, Steps, WalkHeaders, CleanUp, At,
        Failed, runtime
  <2> QED BY <2>1, <2>2, <2>3, <2>4, <2>5, <2>6
<1>7. ASSUME NEW s \in Services, ReadRowsAndRegister(s) PROVE IInv'
  <2>1. TypeOK'
    BY <1>7
    DEF TypeOK, Starting, Cleaning, Disposing, Finished, Stages, Steps, Phases,
        ReadRowsAndRegister, CleanUp, At, Failed, runtime
  <2>2. StagesOwn'
    BY <1>7
    DEF TypeOK, StagesOwn, Owning, ReadRowsAndRegister, CleanUp, At, Failed,
        runtime
  <2>3. LedgerFollowsStage'
    BY <1>7
    DEF TypeOK, LedgerFollowsStage, Opened, Closing, ReadRowsAndRegister,
        CleanUp, At, Failed, runtime
  <2>4. PolicyIsStrict'
    BY <1>7
    DEF TypeOK, PolicyIsStrict, ReadRowsAndRegister, CleanUp, At, Failed,
        runtime
  <2>5. PermitsFollowStage'
    BY <1>7
    DEF TypeOK, PermitsFollowStage, ReadRowsAndRegister, CleanUp, At, Failed,
        runtime
  <2>6. OwnerOwns'
    BY <1>7
    DEF TypeOK, OwnerOwns, StagesOwn, Owning, Steps, ReadRowsAndRegister,
        CleanUp, At, Failed, runtime
  <2> QED BY <2>1, <2>2, <2>3, <2>4, <2>5, <2>6
<1>8. ASSUME NEW s \in Services, ReadRowsFails(s) PROVE IInv'
  <2>1. TypeOK'
    BY <1>8
    DEF TypeOK, Starting, Cleaning, Disposing, Finished, Stages, Steps, Phases,
        ReadRowsFails, CleanUp, At, Failed, runtime
  <2>2. StagesOwn'
    BY <1>8 DEF TypeOK, StagesOwn, Owning, ReadRowsFails, CleanUp, At, Failed, runtime
  <2>3. LedgerFollowsStage'
    BY <1>8
    DEF TypeOK, LedgerFollowsStage, Opened, Closing, ReadRowsFails, CleanUp, At,
        Failed, runtime
  <2>4. PolicyIsStrict'
    BY <1>8 DEF TypeOK, PolicyIsStrict, ReadRowsFails, CleanUp, At, Failed, runtime
  <2>5. PermitsFollowStage'
    BY <1>8 DEF TypeOK, PermitsFollowStage, ReadRowsFails, CleanUp, At, Failed, runtime
  <2>6. OwnerOwns'
    BY <1>8
    DEF TypeOK, OwnerOwns, StagesOwn, Owning, Steps, ReadRowsFails, CleanUp, At,
        Failed, runtime
  <2> QED BY <2>1, <2>2, <2>3, <2>4, <2>5, <2>6
<1>9. ASSUME NEW s \in Services, LedgerClosed(s, "cleanup-close", "cleanup-release") PROVE IInv'
  <2>1. TypeOK'
    BY <1>9
    DEF TypeOK, Starting, Cleaning, Disposing, Finished, Stages, Steps, Phases,
        LedgerClosed, At, Failed, runtime
  <2>2. StagesOwn'
    BY <1>9 DEF TypeOK, StagesOwn, Owning, LedgerClosed, At, Failed, runtime
  <2>3. LedgerFollowsStage'
    BY <1>9
    DEF TypeOK, LedgerFollowsStage, Opened, Closing, LedgerClosed, At, Failed,
        runtime
  <2>4. PolicyIsStrict'
    BY <1>9 DEF TypeOK, PolicyIsStrict, LedgerClosed, At, Failed, runtime
  <2>5. PermitsFollowStage'
    BY <1>9 DEF TypeOK, PermitsFollowStage, LedgerClosed, At, Failed, runtime
  <2>6. OwnerOwns'
    BY <1>9
    DEF TypeOK, OwnerOwns, StagesOwn, Owning, Steps, LedgerClosed, At, Failed,
        runtime
  <2> QED BY <2>1, <2>2, <2>3, <2>4, <2>5, <2>6
<1>10. ASSUME NEW s \in Services, GuardReleased(s, "cleanup-release", "unavailable") PROVE IInv'
  <2>1. TypeOK'
    BY <1>10
    DEF TypeOK, Starting, Cleaning, Disposing, Finished, Stages, Steps, Phases,
        GuardReleased, At, Failed, runtime
  <2>2. StagesOwn'
    BY <1>10 DEF TypeOK, StagesOwn, Owning, GuardReleased, At, Failed, runtime
  <2>3. LedgerFollowsStage'
    BY <1>10
    DEF TypeOK, LedgerFollowsStage, Opened, Closing, GuardReleased, At, Failed,
        runtime
  <2>4. PolicyIsStrict'
    BY <1>10 DEF TypeOK, PolicyIsStrict, GuardReleased, At, Failed, runtime
  <2>5. PermitsFollowStage'
    BY <1>10 DEF TypeOK, PermitsFollowStage, GuardReleased, At, Failed, runtime
  <2>6. OwnerOwns'
    BY <1>10
    DEF TypeOK, OwnerOwns, StagesOwn, Owning, Steps, GuardReleased, At, Failed,
        runtime
  <2> QED BY <2>1, <2>2, <2>3, <2>4, <2>5, <2>6
<1>11. ASSUME NEW s \in Services, Dispose(s) PROVE IInv'
  <2>1. TypeOK'
    BY <1>11
    DEF TypeOK, Starting, Cleaning, Disposing, Finished, Stages, Steps, Phases,
        Dispose, At, Failed, runtime
  <2>2. StagesOwn'
    BY <1>11 DEF TypeOK, StagesOwn, Owning, Dispose, At, Failed, runtime
  <2>3. LedgerFollowsStage'
    BY <1>11
    DEF TypeOK, LedgerFollowsStage, Opened, Closing, Dispose, At, Failed,
        runtime
  <2>4. PolicyIsStrict'
    BY <1>11 DEF TypeOK, PolicyIsStrict, Dispose, At, Failed, runtime
  <2>5. PermitsFollowStage'
    BY <1>11 DEF TypeOK, PermitsFollowStage, Dispose, At, Failed, runtime
  <2>6. OwnerOwns'
    BY <1>11
    DEF TypeOK, OwnerOwns, StagesOwn, Owning, Steps, Dispose, At, Failed,
        runtime
  <2> QED BY <2>1, <2>2, <2>3, <2>4, <2>5, <2>6
<1>12. ASSUME NEW s \in Services, AuthorityDrained(s) PROVE IInv'
  <2>1. TypeOK'
    BY <1>12
    DEF TypeOK, Starting, Cleaning, Disposing, Finished, Stages, Steps, Phases,
        AuthorityDrained, Drained, At, Failed, runtime
  <2>2. StagesOwn'
    BY <1>12
    DEF TypeOK, StagesOwn, Owning, AuthorityDrained, Drained, At, Failed,
        runtime
  <2>3. LedgerFollowsStage'
    BY <1>12
    DEF TypeOK, LedgerFollowsStage, Opened, Closing, AuthorityDrained, Drained,
        At, Failed, runtime
  <2>4. PolicyIsStrict'
    BY <1>12 DEF TypeOK, PolicyIsStrict, AuthorityDrained, Drained, At, Failed, runtime
  <2>5. PermitsFollowStage'
    BY <1>12
    DEF TypeOK, PermitsFollowStage, AuthorityDrained, Drained, At, Failed,
        runtime
  <2>6. OwnerOwns'
    BY <1>12
    DEF TypeOK, OwnerOwns, StagesOwn, Owning, Steps, AuthorityDrained, Drained,
        At, Failed, runtime
  <2> QED BY <2>1, <2>2, <2>3, <2>4, <2>5, <2>6
<1>13. ASSUME NEW s \in Services, CloseLedger(s) PROVE IInv'
  <2>1. TypeOK'
    BY <1>13
    DEF TypeOK, Starting, Cleaning, Disposing, Finished, Stages, Steps, Phases,
        CloseLedger, LedgerClosed, At, Failed, runtime
  <2>2. StagesOwn'
    BY <1>13
    DEF TypeOK, StagesOwn, Owning, CloseLedger, LedgerClosed, At, Failed,
        runtime
  <2>3. LedgerFollowsStage'
    BY <1>13
    DEF TypeOK, LedgerFollowsStage, Opened, Closing, CloseLedger, LedgerClosed,
        At, Failed, runtime
  <2>4. PolicyIsStrict'
    BY <1>13 DEF TypeOK, PolicyIsStrict, CloseLedger, LedgerClosed, At, Failed, runtime
  <2>5. PermitsFollowStage'
    BY <1>13
    DEF TypeOK, PermitsFollowStage, CloseLedger, LedgerClosed, At, Failed,
        runtime
  <2>6. OwnerOwns'
    BY <1>13
    DEF TypeOK, OwnerOwns, StagesOwn, Owning, Steps, CloseLedger, LedgerClosed,
        At, Failed, runtime
  <2> QED BY <2>1, <2>2, <2>3, <2>4, <2>5, <2>6
<1>14. ASSUME NEW s \in Services, ReleaseGuard(s) PROVE IInv'
  <2>1. TypeOK'
    BY <1>14
    DEF TypeOK, Starting, Cleaning, Disposing, Finished, Stages, Steps, Phases,
        ReleaseGuard, GuardReleased, At, Failed, runtime
  <2>2. StagesOwn'
    BY <1>14
    DEF TypeOK, StagesOwn, Owning, ReleaseGuard, GuardReleased, At, Failed,
        runtime
  <2>3. LedgerFollowsStage'
    BY <1>14
    DEF TypeOK, LedgerFollowsStage, Opened, Closing, ReleaseGuard,
        GuardReleased, At, Failed, runtime
  <2>4. PolicyIsStrict'
    BY <1>14
    DEF TypeOK, PolicyIsStrict, ReleaseGuard, GuardReleased, At, Failed, runtime
  <2>5. PermitsFollowStage'
    BY <1>14
    DEF TypeOK, PermitsFollowStage, ReleaseGuard, GuardReleased, At, Failed,
        runtime
  <2>6. OwnerOwns'
    <3>1. owner = s
      BY <1>14 DEF StagesOwn, Owning, ReleaseGuard, GuardReleased, At
    <3>2. CASE owner' = NoService
      BY <1>14, <3>2 DEF OwnerOwns
    <3>3. CASE owner' = owner /\ Failed(s, "release")
      BY <1>14, <3>1, <3>3 DEF TypeOK, OwnerOwns, Failed
    <3> QED
      BY <1>14, <3>2, <3>3 DEF ReleaseGuard, GuardReleased
  <2> QED BY <2>1, <2>2, <2>3, <2>4, <2>5, <2>6
<1>15. ASSUME NEW r \in Runs, StartRun(r) PROVE IInv'
  <2>1. TypeOK'
    BY <1>15
    DEF TypeOK, Starting, Cleaning, Disposing, Finished, Stages, Steps, Phases,
        StartRun, Goes, GiveUp, EndFrom, service
  <2>2. StagesOwn'
    BY <1>15 DEF TypeOK, StagesOwn, Owning, StartRun, Goes, GiveUp, EndFrom, service
  <2>3. LedgerFollowsStage'
    BY <1>15
    DEF TypeOK, LedgerFollowsStage, Opened, Closing, StartRun, Goes, GiveUp,
        EndFrom, service
  <2>4. PolicyIsStrict'
    BY <1>15 DEF TypeOK, PolicyIsStrict, StartRun, Goes, GiveUp, EndFrom, service
  <2>5. PermitsFollowStage'
    BY <1>15
    DEF TypeOK, PolicyIsStrict, PermitsFollowStage, StartRun, Goes, GiveUp,
        EndFrom, service
  <2>6. OwnerOwns'
    BY <1>15
    DEF TypeOK, OwnerOwns, StagesOwn, Owning, Steps, StartRun, Goes, GiveUp,
        EndFrom, service
  <2> QED BY <2>1, <2>2, <2>3, <2>4, <2>5, <2>6
<1>16. ASSUME NEW r \in Runs, EnterSection(r) PROVE IInv'
  <2>1. TypeOK'
    BY <1>16
    DEF TypeOK, Starting, Cleaning, Disposing, Finished, Stages, Steps, Phases,
        EnterSection, Goes, GiveUp, EndFrom, service
  <2>2. StagesOwn'
    BY <1>16 DEF TypeOK, StagesOwn, Owning, EnterSection, Goes, GiveUp, EndFrom, service
  <2>3. LedgerFollowsStage'
    BY <1>16
    DEF TypeOK, LedgerFollowsStage, Opened, Closing, EnterSection, Goes, GiveUp,
        EndFrom, service
  <2>4. PolicyIsStrict'
    BY <1>16 DEF TypeOK, PolicyIsStrict, EnterSection, Goes, GiveUp, EndFrom, service
  <2>5. PermitsFollowStage'
    BY <1>16
    DEF TypeOK, PermitsFollowStage, EnterSection, Goes, GiveUp, EndFrom, service
  <2>6. OwnerOwns'
    BY <1>16
    DEF TypeOK, OwnerOwns, StagesOwn, Owning, Steps, EnterSection, Goes, GiveUp,
        EndFrom, service
  <2> QED BY <2>1, <2>2, <2>3, <2>4, <2>5, <2>6
<1>17. ASSUME NEW r \in Runs, Admit(r) PROVE IInv'
  <2>1. TypeOK'
    BY <1>17
    DEF TypeOK, Starting, Cleaning, Disposing, Finished, Stages, Steps, Phases,
        Admit, Goes, GiveUp, EndFrom, service
  <2>2. StagesOwn'
    BY <1>17 DEF TypeOK, StagesOwn, Owning, Admit, Goes, GiveUp, EndFrom, service
  <2>3. LedgerFollowsStage'
    BY <1>17
    DEF TypeOK, LedgerFollowsStage, Opened, Closing, Admit, Goes, GiveUp,
        EndFrom, service
  <2>4. PolicyIsStrict'
    BY <1>17 DEF TypeOK, PolicyIsStrict, Admit, Goes, GiveUp, EndFrom, service
  <2>5. PermitsFollowStage'
    BY <1>17 DEF TypeOK, PermitsFollowStage, Admit, Goes, GiveUp, EndFrom, service
  <2>6. OwnerOwns'
    BY <1>17
    DEF TypeOK, OwnerOwns, StagesOwn, Owning, Steps, Admit, Goes, GiveUp,
        EndFrom, service
  <2> QED BY <2>1, <2>2, <2>3, <2>4, <2>5, <2>6
<1>18. ASSUME NEW r \in Runs, Publish(r) PROVE IInv'
  <2>1. TypeOK'
    BY <1>18
    DEF TypeOK, Starting, Cleaning, Disposing, Finished, Stages, Steps, Phases,
        Publish, Goes, GiveUp, EndFrom, service
  <2>2. StagesOwn'
    BY <1>18 DEF TypeOK, StagesOwn, Owning, Publish, Goes, GiveUp, EndFrom, service
  <2>3. LedgerFollowsStage'
    BY <1>18
    DEF TypeOK, LedgerFollowsStage, Opened, Closing, Publish, Goes, GiveUp,
        EndFrom, service
  <2>4. PolicyIsStrict'
    BY <1>18 DEF TypeOK, PolicyIsStrict, Publish, Goes, GiveUp, EndFrom, service
  <2>5. PermitsFollowStage'
    BY <1>18 DEF TypeOK, PermitsFollowStage, Publish, Goes, GiveUp, EndFrom, service
  <2>6. OwnerOwns'
    BY <1>18
    DEF TypeOK, OwnerOwns, StagesOwn, Owning, Steps, Publish, Goes, GiveUp,
        EndFrom, service
  <2> QED BY <2>1, <2>2, <2>3, <2>4, <2>5, <2>6
<1>19. ASSUME NEW r \in Runs, DisposeRun(r) PROVE IInv'
  <2>1. TypeOK'
    BY <1>19
    DEF TypeOK, Starting, Cleaning, Disposing, Finished, Stages, Steps, Phases,
        DisposeRun, Goes, GiveUp, EndFrom, service
  <2>2. StagesOwn'
    BY <1>19 DEF TypeOK, StagesOwn, Owning, DisposeRun, Goes, GiveUp, EndFrom, service
  <2>3. LedgerFollowsStage'
    BY <1>19
    DEF TypeOK, LedgerFollowsStage, Opened, Closing, DisposeRun, Goes, GiveUp,
        EndFrom, service
  <2>4. PolicyIsStrict'
    BY <1>19 DEF TypeOK, PolicyIsStrict, DisposeRun, Goes, GiveUp, EndFrom, service
  <2>5. PermitsFollowStage'
    BY <1>19 DEF TypeOK, PermitsFollowStage, DisposeRun, Goes, GiveUp, EndFrom, service
  <2>6. OwnerOwns'
    BY <1>19
    DEF TypeOK, OwnerOwns, StagesOwn, Owning, Steps, DisposeRun, Goes, GiveUp,
        EndFrom, service
  <2> QED BY <2>1, <2>2, <2>3, <2>4, <2>5, <2>6
<1>20. ASSUME NEW r \in Runs, ReleasePermit(r) PROVE IInv'
  <2>1. TypeOK'
    BY <1>20
    DEF TypeOK, Starting, Cleaning, Disposing, Finished, Stages, Steps, Phases,
        ReleasePermit, Goes, GiveUp, EndFrom, service
  <2>2. StagesOwn'
    BY <1>20
    DEF TypeOK, StagesOwn, Owning, ReleasePermit, Goes, GiveUp, EndFrom, service
  <2>3. LedgerFollowsStage'
    BY <1>20
    DEF TypeOK, LedgerFollowsStage, Opened, Closing, ReleasePermit, Goes,
        GiveUp, EndFrom, service
  <2>4. PolicyIsStrict'
    BY <1>20 DEF TypeOK, PolicyIsStrict, ReleasePermit, Goes, GiveUp, EndFrom, service
  <2>5. PermitsFollowStage'
    BY <1>20
    DEF TypeOK, PermitsFollowStage, ReleasePermit, Goes, GiveUp, EndFrom,
        service
  <2>6. OwnerOwns'
    BY <1>20
    DEF TypeOK, OwnerOwns, StagesOwn, Owning, Steps, ReleasePermit, Goes,
        GiveUp, EndFrom, service
  <2> QED BY <2>1, <2>2, <2>3, <2>4, <2>5, <2>6
<1>21. CASE UNCHANGED vars
  BY <1>21
  DEF TypeOK, StagesOwn, LedgerFollowsStage, PolicyIsStrict, PermitsFollowStage,
      OwnerOwns, vars, runtime
<1> QED
  BY <1>1, <1>2, <1>3, <1>4, <1>5, <1>6, <1>7, <1>8, <1>9, <1>10, <1>11, <1>12, <1>13, <1>14, <1>15, <1>16, <1>17, <1>18, <1>19, <1>20, <1>21
  DEF Next, ServiceStep, RunStep

LEMMA InitInv == Init => IInv
  BY ServicesAssumption
  DEF Init, IInv, TypeOK, StagesOwn, LedgerFollowsStage, PolicyIsStrict, PermitsFollowStage,
      OwnerOwns, Stages, Phases, Owning, Opened, Closing

LEMMA Invariance == Spec => []IInv
  BY InitInv, StepKeepsInv, PTL DEF Spec

(* The state keeps its shape: no run asks, or gives back, without knowing  *)
(* whose policy it is.                                                     *)
THEOREM TypeCorrect == Spec => []TypeOK
<1>1. IInv => TypeOK
  BY DEF IInv
<1> QED
  BY Invariance, <1>1, PTL

(* A ledger that is open, or being closed, belongs to the owner of the     *)
(* path, for any number of loads of the plugin.                            *)
THEOREM LedgerUnderOwnership == Spec => []OwnershipCoversLedger
<1>1. IInv => OwnershipCoversLedger
  BY DEF IInv, StagesOwn, LedgerFollowsStage, OwnershipCoversLedger, Owning, Opened, Closing
<1> QED
  BY Invariance, <1>1, PTL

(* No permit is asked for or held that outlives its ledger or the          *)
(* ownership of the path.                                                  *)
THEOREM PermitsUnderResources == Spec => []ResourcesOutlivePermits
<1>1. IInv => ResourcesOutlivePermits
  BY DEF IInv, TypeOK, StagesOwn, LedgerFollowsStage, PermitsFollowStage,
         ResourcesOutlivePermits, Owning, Opened
<1> QED
  BY Invariance, <1>1, PTL

(* A service that is gone owns the path only if it could not assert or     *)
(* release it, and has no ledger open.                                     *)
THEOREM ResourcesGivenBack == Spec => []NothingLeftBehind
<1>1. IInv => NothingLeftBehind
  BY DEF IInv, TypeOK, LedgerFollowsStage, OwnerOwns, NothingLeftBehind, Owning, Opened,
         Closing, Finished
<1> QED
  BY Invariance, <1>1, PTL

(* No policy is registered beside a live subagent without a permit.        *)
THEOREM RegistrationQuiet == Spec => RegistersOnlyWhenQuiet
<1>1. IInv /\ [Next]_vars =>
        [\A s \in Services : policy' = s /\ policy # s =>
           \A r \in Runs : permit[r] = NoService => run[r] \notin {"live", "stuck"}]_vars
  <2> SUFFICES ASSUME IInv, Next,
                      NEW s \in Services, policy' = s, policy # s,
                      NEW r \in Runs
               PROVE  run[r] \notin {"live", "stuck"}
    OBVIOUS
  <2>1. \E t \in Services : ReadRowsAndRegister(t) /\ BootstrapQuiet
    BY ServicesAssumption
    DEF Next, ServiceStep, RunStep, Preflight, AcquireGuard, AssertHeld, OpenLedger,
        ListSessions, WalkHeaders, ReadRowsAndRegister, ReadRowsFails, LedgerClosed,
        GuardReleased, Dispose, AuthorityDrained, CloseLedger, ReleaseGuard, CleanUp,
        StartRun, EnterSection, Admit, Publish, DisposeRun, ReleasePermit, service
  <2> QED
    BY <2>1 DEF BootstrapQuiet, LiveSubagents
<1> QED
  BY Invariance, <1>1, PTL DEF Spec, RegistersOnlyWhenQuiet

(* Once a policy was registered, no run ever starts without a permit.      *)
THEOREM StartsCovered == Spec => NoUncoveredStart
<1>1. IInv /\ [Next]_vars =>
        [policy # "undefined" =>
           /\ policy' # "undefined"
           /\ \A r \in Runs :
                run[r] = "idle" /\ run'[r] # "idle" => permit'[r] # NoService]_vars
  <2> SUFFICES ASSUME IInv, Next, policy # "undefined"
               PROVE  /\ policy' # "undefined"
                      /\ \A r \in Runs :
                           run[r] = "idle" /\ run'[r] # "idle" => permit'[r] # NoService
    OBVIOUS
  <2> USE DEF Next, ServiceStep, RunStep, Preflight, AcquireGuard, AssertHeld, OpenLedger,
              ListSessions, WalkHeaders, ReadRowsAndRegister, ReadRowsFails, LedgerClosed,
              GuardReleased, Dispose, AuthorityDrained, CloseLedger, ReleaseGuard, CleanUp,
              StartRun, EnterSection, Admit, Publish, DisposeRun, ReleasePermit
  <2>1. policy' # "undefined"
    BY ServicesAssumption DEF service
  <2>2. ASSUME NEW r \in Runs, run[r] = "idle", run'[r] # "idle"
        PROVE  permit'[r] # NoService
    <3>1. StartRun(r)
      BY <2>2 DEF EndFrom, Goes, runtime, IInv, TypeOK
    <3> QED
      BY <2>2, <3>1, ServicesAssumption DEF IInv, TypeOK
  <2> QED
    BY <2>1, <2>2
<1> QED
  BY Invariance, <1>1, PTL DEF Spec, NoUncoveredStart
=============================================================================
