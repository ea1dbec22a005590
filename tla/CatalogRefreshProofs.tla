------------------------ MODULE CatalogRefreshProofs ------------------------
(***************************************************************************)
(* The catalog a refresh leaves is one a fresh Open could have produced,   *)
(* and a refresh rebuilds it only for a cause, for any directories, files, *)
(* clock grain and racy window.                                            *)
(***************************************************************************)
EXTENDS CatalogRefresh, TLAPS

\* Every step keeps the types.
LEMMA TypeStep ==
    ASSUME TypeOK, [Next]_vars
    PROVE  TypeOK'
  <1> USE ClockOK
  <1> USE DEF TypeOK, Phase, world, memory, refresh, ghost, Nothing, Zero
  <1>1. CASE Tick
    BY <1>1 DEF Tick
  <1>2. CASE Restart
    BY <1>2 DEF Restart, End
  <1>3. CASE Begin
    BY <1>3 DEF Begin
  <1>4. CASE SkipRebuild
    BY <1>4 DEF SkipRebuild, End
  <1>5. CASE BeginRebuild
    BY <1>5 DEF BeginRebuild
  <1>6. CASE Fail
    BY <1>6 DEF Fail, End
  <1>7. CASE Finish
    BY <1>7 DEF Finish, End
  <1>8. CASE \E d \in Dir : OtherAdds(d)
    <2> SUFFICES ASSUME NEW d \in Dir, OtherAdds(d) PROVE TypeOK'
      BY <1>8
    <2> QED
      BY DEF OtherAdds, Becomes
  <1>9. CASE \E d \in Dir : OtherRemoves(d)
    <2> SUFFICES ASSUME NEW d \in Dir, OtherRemoves(d) PROVE TypeOK'
      BY <1>9
    <2> QED
      BY DEF OtherRemoves, Becomes
  <1>10. CASE \E d \in Dir : OwnCommit(d)
    <2> SUFFICES ASSUME NEW d \in Dir, OwnCommit(d) PROVE TypeOK'
      BY <1>10
    <2> QED
      BY DEF OwnCommit, Becomes
  <1>11. CASE \E d \in Dir : OwnRemove(d)
    <2> SUFFICES ASSUME NEW d \in Dir, OwnRemove(d) PROVE TypeOK'
      BY <1>11
    <2> QED
      BY DEF OwnRemove, Becomes
  <1>12. CASE \E d \in Dir : StatDir(d)
    BY <1>12 DEF StatDir
  <1>13. CASE \E d \in Dir : ListDir(d)
    BY <1>13 DEF ListDir
  <1>14. CASE \E d \in Dir : ReadFooter(d)
    BY <1>14 DEF ReadFooter
  <1>15. CASE \E d \in Dir : SkipVanished(d)
    BY <1>15 DEF SkipVanished
  <1>16. CASE UNCHANGED vars
    BY <1>16 DEF vars
  <1> QED
    BY <1>1, <1>2, <1>3, <1>4, <1>5, <1>6, <1>7, <1>8, <1>9, <1>10, <1>11,
       <1>12, <1>13, <1>14, <1>15, <1>16 DEF Next

\* A directory that changes now changes at no time a rebuild or the refresh
\* in progress could have missed.
LEMMA ChangeStep ==
    ASSUME TypeOK, RefreshOK, NEW d \in Dir, NEW S \in SUBSET File, Becomes(d, S),
           UNCHANGED <<dirSeen, seenAt, force, refresh>>,
           \A e \in Dir \ {d} : cat'[e] = cat[e],
           phase # "idle" => cat' = cat
    PROVE  RefreshOK'
  <1> USE ClockOK
  <1>1. PICK m \in 0..now : now < m + Grain /\ mtime' = [mtime EXCEPT ![d] = m]
    BY DEF Becomes
  <1>2. TimesInv'
    BY <1>1 DEF TypeOK, RefreshOK, TimesInv, Becomes, refresh
  <1>3. KeptInv'
    BY DEF TypeOK, RefreshOK, TimesInv, KeptInv, Becomes
  <1>4. RefreshInv'
    BY DEF TypeOK, RefreshOK, TimesInv, RefreshInv, Becomes, refresh
  <1> QED
    BY <1>2, <1>3, <1>4 DEF RefreshOK

\* The end of a refresh leaves only what the catalog knows.
LEMMA EndStep ==
    ASSUME TypeOK, RefreshOK, End, KeptInv', seenAt' <= now'
    PROVE  RefreshOK'
  <1>1. TimesInv'
    BY DEF TypeOK, RefreshOK, TimesInv, End, world
  <1>2. RefreshInv'
    BY DEF TypeOK, RefreshOK, RefreshInv, End, Nothing
  <1> QED
    BY <1>1, <1>2 DEF RefreshOK

\* A finished rebuild found exactly what a directory holds that has not
\* changed since the refresh began, and of any directory what was there
\* throughout and nothing that never was.
LEMMA Found ==
    ASSUME TypeOK, RefreshOK, Finish, NEW d \in Dir
    PROVE  /\ always[d] \subseteq cat'[d] /\ cat'[d] \subseteq ever[d]
           /\ changed[d] < at => cat'[d] = held[d]
  <1>1. listed[d] = {} /\ cat'[d] = found[d] /\ phase = "read"
    BY DEF Finish, Nothing
  <1>2. always[d] \subseteq found[d] /\ found[d] \subseteq ever[d]
    BY <1>1 DEF RefreshOK, RefreshInv
  <1>3. changed[d] < at => held[d] \subseteq always[d] /\ ever[d] \subseteq held[d]
    BY <1>1 DEF RefreshOK, RefreshInv
  <1>4. changed[d] < at => found[d] = held[d]
    BY <1>2, <1>3
  <1> QED
    BY <1>1, <1>2, <1>4

\* A refresh that skips the rebuild keeps a catalog that is as good.
LEMMA Skipped ==
    ASSUME TypeOK, RefreshOK, SkipRebuild, NEW d \in Dir
    PROVE  always[d] \subseteq cat'[d] /\ cat'[d] \subseteq ever[d]
  <1> USE ClockOK
  <1>1. ~force /\ stamps[d] + Window <= seenAt
    BY DEF SkipRebuild, Skips, Settled, TypeOK
  <1>2. stamps[d] + Grain <= seenAt
    BY <1>1 DEF TypeOK
  <1> QED
    BY <1>1, <1>2 DEF TypeOK, RefreshOK, RefreshInv, SkipRebuild, memory

\* Every step keeps the invariant.
LEMMA RefreshStep ==
    ASSUME TypeOK, RefreshOK, [Next]_vars
    PROVE  RefreshOK'
  <1> USE ClockOK
  <1>1. CASE Tick
    BY <1>1 DEF Tick, TypeOK, RefreshOK, TimesInv, KeptInv, RefreshInv, memory, refresh, ghost
  <1>2. CASE Restart
    <2>1. KeptInv' /\ seenAt' <= now'
      BY <1>2 DEF Restart, KeptInv, TypeOK, End, world
    <2> QED
      BY <1>2, <2>1, EndStep DEF Restart
  <1>3. CASE Begin
    BY <1>3 DEF Begin, TypeOK, RefreshOK, TimesInv, KeptInv, RefreshInv, world, memory
  <1>4. CASE SkipRebuild
    <2>1. KeptInv' /\ seenAt' <= now'
      BY <1>4 DEF SkipRebuild, RefreshOK, KeptInv, TimesInv, End, world, memory
    <2> QED
      BY <1>4, <2>1, EndStep DEF SkipRebuild
  <1>5. CASE BeginRebuild
    BY <1>5 DEF BeginRebuild, TypeOK, RefreshOK, TimesInv, KeptInv, RefreshInv, world, memory, ghost
  <1>6. CASE Fail
    <2>1. KeptInv' /\ seenAt' <= now'
      BY <1>6 DEF Fail, RefreshOK, KeptInv, TimesInv, End, world, memory
    <2> QED
      BY <1>6, <2>1, EndStep DEF Fail
  <1>7. CASE Finish
    <2>1. \A d \in Dir : changed[d] < at => cat'[d] = held[d]
      BY <1>7, Found
    <2>2. KeptInv' /\ seenAt' <= now'
      BY <1>7, <2>1 DEF Finish, RefreshOK, KeptInv, TimesInv, End, world
    <2> QED
      BY <1>7, <2>2, EndStep DEF Finish
  <1>8. CASE \E d \in Dir : OtherAdds(d)
    <2> PICK d \in Dir : OtherAdds(d)
      BY <1>8
    <2>1. PICK f \in File : Becomes(d, held[d] \cup {f})
      BY DEF OtherAdds
    <2> QED
      BY <2>1, ChangeStep DEF OtherAdds, memory, TypeOK
  <1>9. CASE \E d \in Dir : OtherRemoves(d)
    <2> PICK d \in Dir : OtherRemoves(d)
      BY <1>9
    <2>1. PICK f \in held[d] : Becomes(d, held[d] \ {f})
      BY DEF OtherRemoves
    <2> QED
      BY <2>1, ChangeStep DEF OtherRemoves, memory, TypeOK
  <1>10. CASE \E d \in Dir : OwnCommit(d)
    <2> PICK d \in Dir : OwnCommit(d)
      BY <1>10
    <2>1. PICK f \in File : Becomes(d, held[d] \cup {f}) /\ cat' = [cat EXCEPT ![d] = @ \cup {f}]
      BY DEF OwnCommit
    <2> QED
      BY <2>1, ChangeStep DEF OwnCommit, TypeOK
  <1>11. CASE \E d \in Dir : OwnRemove(d)
    <2> PICK d \in Dir : OwnRemove(d)
      BY <1>11
    <2>1. PICK f \in held[d] : Becomes(d, held[d] \ {f}) /\ cat' = [cat EXCEPT ![d] = @ \ {f}]
      BY DEF OwnRemove
    <2> QED
      BY <2>1, ChangeStep DEF OwnRemove, TypeOK
  <1>12. CASE \E d \in Dir : StatDir(d)
    <2> PICK d \in Dir : StatDir(d)
      BY <1>12
    <2>1. TimesInv' /\ KeptInv'
      BY DEF StatDir, RefreshOK, TimesInv, KeptInv, world, memory, ghost
    <2>2. ~force /\ mtime[d] + Grain <= seenAt => cat[d] = held[d]
      BY DEF TypeOK, RefreshOK, TimesInv, KeptInv
    <2>3. RefreshInv'
      BY <2>2 DEF StatDir, TypeOK, RefreshOK, RefreshInv, world, memory, ghost
    <2> QED
      BY <2>1, <2>3 DEF RefreshOK
  <1>13. CASE \E d \in Dir : ListDir(d)
    BY <1>13 DEF ListDir, TypeOK, RefreshOK, TimesInv, KeptInv, RefreshInv, world, memory, ghost
  <1>14. CASE \E d \in Dir : ReadFooter(d)
    BY <1>14 DEF ReadFooter, TypeOK, RefreshOK, TimesInv, KeptInv, RefreshInv, world, memory, ghost
  <1>15. CASE \E d \in Dir : SkipVanished(d)
    BY <1>15 DEF SkipVanished, TypeOK, RefreshOK, TimesInv, KeptInv, RefreshInv, world, memory, ghost
  <1>16. CASE UNCHANGED vars
    BY <1>16 DEF vars, RefreshOK, TimesInv, KeptInv, RefreshInv, world, memory, refresh, ghost
  <1> QED
    BY <1>1, <1>2, <1>3, <1>4, <1>5, <1>6, <1>7, <1>8, <1>9, <1>10, <1>11,
       <1>12, <1>13, <1>14, <1>15, <1>16 DEF Next

\* The inductive invariant holds in every state.
LEMMA RefreshInvariant == Spec => [](TypeOK /\ RefreshOK)
  <1>1. Init => TypeOK /\ RefreshOK
    BY ClockOK DEF Init, TypeOK, Phase, RefreshOK, TimesInv, KeptInv, RefreshInv, Nothing, Zero
  <1>2. TypeOK /\ RefreshOK /\ [Next]_vars => TypeOK' /\ RefreshOK'
    BY TypeStep, RefreshStep
  <1> QED
    BY <1>1, <1>2, PTL DEF Spec

\* Skipped or not, a refresh leaves a catalog with every file that was in
\* the directory throughout and none that never was (CurrentCatalog), as
\* long as modification times lag by no more than the racy window.
THEOREM RefreshIsCurrent == Spec => CurrentCatalog
  <1>1. TypeOK /\ RefreshOK =>
          [SkipRebuild \/ Finish =>
             \A d \in Dir : always[d] \subseteq cat'[d] /\ cat'[d] \subseteq ever[d]]_vars
    BY Found, Skipped
  <1> QED
    BY <1>1, RefreshInvariant, PTL DEF CurrentCatalog
-----------------------------------------------------------------------------
(* A rebuild has a cause.                                                  *)

\* Directories the refresh in progress has a stamp of.
Stamped == IF phase = "idle" THEN {} ELSE IF phase = "stat" THEN Dir \ todo ELSE Dir

\* A stamp other than the one remembered, or than the one taken, tells of a change since
\* that rebuild, or this refresh, began.
CauseInv ==
    /\ ~force => \A d \in Dir : mtime[d] # dirSeen[d] => changed[d] >= seenAt
    /\ \A d \in Stamped :
         /\ stamps[d] <= changed[d]
         /\ mtime[d] # stamps[d] => changed[d] >= at
         /\ ~force /\ stamps[d] # dirSeen[d] => changed[d] >= seenAt
    /\ RebuildsForCause

\* A change is no earlier than any rebuild, and keeps a cause there was.
LEMMA ChangeIsCause ==
    ASSUME TypeOK, TimesInv, CauseInv, NEW d \in Dir, NEW S, Becomes(d, S),
           UNCHANGED <<dirSeen, seenAt, force, refresh>>
    PROVE  CauseInv'
  <1> USE ClockOK DEF TypeOK
  <1>1. changed'[d] = now /\ \A e \in Dir \ {d} : changed'[e] = changed[e] /\ mtime'[e] = mtime[e]
    BY DEF Becomes
  <1>2. at <= now /\ seenAt <= now /\ \A e \in Dir : changed[e] <= now
    BY DEF TimesInv
  <1>3. UNCHANGED <<phase, at, stamps, todo>> /\ Stamped' = Stamped
    BY DEF refresh, Stamped
  <1>4. Stamped \subseteq Dir
    BY DEF Stamped
  <1>5. ~force' => \A e \in Dir : mtime'[e] # dirSeen'[e] => changed'[e] >= seenAt'
    BY <1>1, <1>2 DEF CauseInv
  <1>6. \A e \in Stamped' :
          /\ stamps'[e] <= changed'[e]
          /\ mtime'[e] # stamps'[e] => changed'[e] >= at'
          /\ ~force' /\ stamps'[e] # dirSeen'[e] => changed'[e] >= seenAt'
    BY <1>1, <1>2, <1>3, <1>4 DEF CauseInv
  <1>7. RebuildsForCause'
    <2> SUFFICES ASSUME phase = "list", ~force
                 PROVE  \E e \in Dir : changed'[e] + Window > seenAt
      BY <1>3 DEF RebuildsForCause
    <2>1. PICK e \in Dir : changed[e] + Window > seenAt
      BY DEF CauseInv, RebuildsForCause
    <2>2. changed'[e] >= changed[e]
      BY <1>1, <1>2
    <2>3. changed'[e] \in Nat
      BY <1>1
    <2> QED
      BY <2>1, <2>2, <2>3
  <1> QED
    BY <1>5, <1>6, <1>7 DEF CauseInv

\* What the end of a refresh leaves to show.
LEMMA EndCause ==
    ASSUME End, ~force' => \A d \in Dir : mtime[d] # dirSeen'[d] => changed[d] >= seenAt'
    PROVE  CauseInv'
  BY DEF End, CauseInv, Stamped, RebuildsForCause, world

LEMMA CauseStep ==
    ASSUME TypeOK, TimesInv, CauseInv, [Next]_vars
    PROVE  CauseInv'
  <1> USE ClockOK
  <1>1. CASE Tick
    BY <1>1 DEF Tick, CauseInv, Stamped, RebuildsForCause, memory, refresh, ghost
  <1>2. CASE Restart
    BY <1>2, EndCause DEF Restart
  <1>3. CASE Begin
    BY <1>3 DEF Begin, CauseInv, Stamped, RebuildsForCause, world, memory
  <1>4. CASE SkipRebuild
    BY <1>4, EndCause DEF SkipRebuild, CauseInv, memory
  <1>5. CASE BeginRebuild
    <2>1. /\ phase = "stat" /\ phase' = "list" /\ todo = {} /\ ~Skips
          /\ UNCHANGED <<mtime, dirSeen, seenAt, force, at, stamps, changed>>
      BY <1>5 DEF BeginRebuild, world, memory, ghost
    <2>2. Stamped = Dir /\ Stamped' = Dir
      BY <2>1 DEF Stamped
    <2>3. ~force => \E d \in Dir : changed[d] + Window > seenAt
      <3> SUFFICES ASSUME ~force
                   PROVE  \E d \in Dir : changed[d] + Window > seenAt
        OBVIOUS
      <3>1. PICK d \in Dir : stamps[d] # dirSeen[d] \/ ~Settled(stamps[d])
        BY <2>1 DEF Skips
      <3>2. stamps[d] <= changed[d] /\ (stamps[d] # dirSeen[d] => changed[d] >= seenAt)
        BY <2>2 DEF CauseInv
      <3>3. changed[d] + Window > seenAt
        BY <3>1, <3>2 DEF TypeOK, Settled
      <3> QED
        BY <3>3
    <2> QED
      BY <2>1, <2>2, <2>3 DEF CauseInv, RebuildsForCause
  <1>6. CASE Fail
    BY <1>6, EndCause DEF Fail, CauseInv, memory
  <1>7. CASE Finish
    <2>1. Stamped = Dir
      BY <1>7 DEF Finish, Stamped
    <2> QED
      BY <1>7, <2>1, EndCause DEF Finish, CauseInv
  <1>8. CASE \E d \in Dir : OtherAdds(d) \/ OtherRemoves(d) \/ OwnCommit(d) \/ OwnRemove(d)
    <2>1. \E d \in Dir : \E S : Becomes(d, S)
      BY <1>8 DEF OtherAdds, OtherRemoves, OwnCommit, OwnRemove
    <2>2. UNCHANGED <<dirSeen, seenAt, force, refresh>>
      BY <1>8 DEF OtherAdds, OtherRemoves, OwnCommit, OwnRemove, memory
    <2> QED
      BY <2>1, <2>2, ChangeIsCause
  <1>9. CASE \E d \in Dir : StatDir(d)
    <2> PICK d \in Dir : StatDir(d)
      BY <1>9
    <2>1. /\ phase = "stat" /\ phase' = "stat" /\ todo' = todo \ {d} /\ stamps' = [stamps EXCEPT ![d] = mtime[d]]
          /\ UNCHANGED <<mtime, dirSeen, seenAt, force, at, changed>>
      BY DEF StatDir, world, memory, ghost
    <2>2. stamps'[d] = mtime[d] /\ \A e \in Dir \ {d} : stamps'[e] = stamps[e]
      BY <2>1 DEF TypeOK
    <2>3. mtime[d] <= changed[d] /\ (~force /\ mtime[d] # dirSeen[d] => changed[d] >= seenAt)
      BY DEF TimesInv, CauseInv
    <2>4. Stamped' \subseteq Stamped \cup {d} /\ Stamped \subseteq Dir
      BY <2>1 DEF Stamped
    <2> QED
      BY <2>1, <2>2, <2>3, <2>4 DEF CauseInv, RebuildsForCause
  <1>10. CASE \E d \in Dir : ListDir(d) \/ ReadFooter(d) \/ SkipVanished(d)
    <2>1. phase \in {"list", "read"} /\ phase' \in {"list", "read"} /\ (phase' = "list" => phase = "list")
          /\ UNCHANGED <<mtime, dirSeen, seenAt, force, at, stamps, changed>>
      BY <1>10 DEF ListDir, ReadFooter, SkipVanished, world, memory, ghost
    <2> QED
      BY <2>1 DEF CauseInv, Stamped, RebuildsForCause
  <1>11. CASE UNCHANGED vars
    BY <1>11 DEF vars, CauseInv, Stamped, RebuildsForCause, world, memory, refresh, ghost
  <1> QED
    BY <1>1, <1>2, <1>3, <1>4, <1>5, <1>6, <1>7, <1>8, <1>9, <1>10, <1>11 DEF Next

\* A refresh lists the directories only when one of them has changed since the last
\* rebuild began, or within the racy window before: a settled directory costs a stat.
THEOREM RebuildsHaveCause == Spec => []RebuildsForCause
  <1>1. Init => CauseInv
    BY DEF Init, CauseInv, Stamped, RebuildsForCause
  <1>2. TypeOK /\ RefreshOK /\ CauseInv /\ [Next]_vars => CauseInv'
    BY CauseStep DEF RefreshOK
  <1>3. CauseInv => RebuildsForCause
    BY DEF CauseInv
  <1> QED
    BY <1>1, <1>2, <1>3, RefreshInvariant, PTL DEF Spec
=============================================================================
