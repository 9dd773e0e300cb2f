---------------------- MODULE PostgresMetastore_proofs ----------------------
(***************************************************************************)
(* Proofs about PostgresMetastore, for any number of drawn passwords. The  *)
(* inductive invariant adds to the properties what a start knows of        *)
(* pg_data at each of its commands.                                        *)
(***************************************************************************)
EXTENDS PostgresMetastore, TLAPS

\* The commands of a start that found nothing expect what the one before left;
\* one that found files found a finished metastore, or a spoiled one.
StartKnows ==
  /\ pc \in {"idle", "container", "look"} => ~exists /\ (data \in Unfinished => spoiled)
  /\ pc = "initdb" => data \in Empty
  /\ pc = "pg_ctl" /\ ~exists => data \in {"missing", "empty", "cluster"}
  /\ pc = "createdb" => data = "cluster" \/ spoiled
  /\ pc = "role" => data = "database"
  /\ pc \in {"hive", "schematool"} => data = "role"
  /\ pc = "others" /\ ~exists => data = "complete"
  /\ pc \in {"initdb", "createdb", "role", "hive", "schematool"} => ~exists
  /\ exists => data = "complete" \/ spoiled

\* One password is in the configuration and in hive-site.xml.
SamePassword == site = password

IInv ==
  /\ TypeOK
  /\ StartKnows
  /\ SamePassword
  /\ OpenMeansComplete
  /\ UnfinishedIsInTheMaking

-----------------------------------------------------------------------------
\* The sets that the types are made of, and the tuples of variables.
USE DEF Passwords, Empty, Unfinished, Open, Goto, Leave, configuration, database, engine, vars

\* There is no pg_data at first.
LEMMA InitInvariant == Init => IInv
  <1> SUFFICES ASSUME Init PROVE IInv
    OBVIOUS
  <1>1. TypeOK
    <2>1. /\ {password, site, role} \subseteq Passwords \cup {None}
          /\ drawn \in 0 .. Draws
      BY PasswordAssumption DEF Init
    <2>2. {container, server, exists, spoiled} \subseteq BOOLEAN /\ ~server
      BY DEF Init
    <2> QED
      BY <2>1, <2>2 DEF Init, TypeOK
  <1>2. StartKnows /\ SamePassword
    BY DEF Init, StartKnows, SamePassword
  <1>3. OpenMeansComplete /\ UnfinishedIsInTheMaking
    BY DEF Init, OpenMeansComplete, UnfinishedIsInTheMaking
  <1> QED
    BY <1>1, <1>2, <1>3 DEF IInv

\* One case per action.
LEMMA NextInvariant == IInv /\ [Next]_vars => IInv'
  <1> SUFFICES ASSUME IInv, [Next]_vars PROVE IInv'
    OBVIOUS
  <1> USE PasswordAssumption
  <1> USE DEF IInv, TypeOK, StartKnows, SamePassword, OpenMeansComplete,
              UnfinishedIsInTheMaking
  <1>1. CASE Configure
    BY <1>1 DEF Configure
  <1>2. CASE BeginStart
    BY <1>2 DEF BeginStart
  <1>3. CASE StartContainer
    BY <1>3 DEF StartContainer
  <1>4. CASE Look
    <2>1. TypeOK'
      BY <1>4 DEF Look, PgExists
    <2>2. StartKnows' /\ SamePassword'
      BY <1>4 DEF Look, PgExists
    <2>3. OpenMeansComplete' /\ UnfinishedIsInTheMaking'
      BY <1>4 DEF Look, PgExists
    <2> HIDE DEF TypeOK, StartKnows, SamePassword, OpenMeansComplete, UnfinishedIsInTheMaking
    <2> QED
      BY <2>1, <2>2, <2>3
  <1>5. CASE Initdb
    BY <1>5 DEF Initdb
  <1>6. CASE PgCtl
    BY <1>6 DEF PgCtl, NextAfterServer
  <1>7. CASE Createdb
    BY <1>7 DEF Createdb
  <1>8. CASE CreateRole
    BY <1>8 DEF CreateRole
  <1>9. CASE InitHive
    BY <1>9 DEF InitHive
  <1>10. CASE Schematool
    BY <1>10 DEF Schematool
  <1>11. CASE SetupFails
    <2>1. TypeOK'
      BY <1>11 DEF SetupFails
    <2>2. StartKnows' /\ SamePassword'
      BY <1>11 DEF SetupFails
    <2>3. OpenMeansComplete' /\ UnfinishedIsInTheMaking'
      BY <1>11 DEF SetupFails
    <2> HIDE DEF TypeOK, StartKnows, SamePassword, OpenMeansComplete, UnfinishedIsInTheMaking
    <2> QED
      BY <2>1, <2>2, <2>3
  <1>12. CASE OthersStart
    BY <1>12 DEF OthersStart
  <1>13. CASE OthersFail
    <2>1. TypeOK'
      BY <1>13 DEF OthersFail
    <2>2. StartKnows' /\ SamePassword'
      BY <1>13 DEF OthersFail
    <2>3. OpenMeansComplete' /\ UnfinishedIsInTheMaking'
      BY <1>13 DEF OthersFail
    <2> HIDE DEF TypeOK, StartKnows, SamePassword, OpenMeansComplete, UnfinishedIsInTheMaking
    <2> QED
      BY <2>1, <2>2, <2>3
  <1>14. CASE Stop
    <2>1. TypeOK'
      <3>1. UNCHANGED <<password, site, drawn, data, role, pc, exists, spoiled>>
        BY <1>14 DEF Stop
      <3>2. container' \in BOOLEAN /\ server' \in BOOLEAN /\ (server' => container')
        <4>1. CASE status = "down"
          <5>1. UNCHANGED engine
            BY <1>14, <4>1 DEF Stop
          <5> QED
            BY <5>1
        <4>2. CASE status # "down"
          <5>1. container' = FALSE /\ server' = FALSE
            BY <1>14, <4>2 DEF Stop
          <5> QED
            BY <5>1
        <4> QED
          BY <4>1, <4>2
      <3>3. pc = "idle" /\ status' = "down"
        BY <1>14 DEF Stop
      <3> QED
        BY <3>1, <3>2, <3>3
    <2>2. StartKnows' /\ SamePassword'
      BY <1>14 DEF Stop
    <2>3. OpenMeansComplete' /\ UnfinishedIsInTheMaking'
      BY <1>14 DEF Stop
    <2> HIDE DEF TypeOK, StartKnows, SamePassword, OpenMeansComplete, UnfinishedIsInTheMaking
    <2> QED
      BY <2>1, <2>2, <2>3
  <1>15. CASE Clean
    <2>1. TypeOK'
      BY <1>15 DEF Clean
    <2>2. StartKnows' /\ SamePassword'
      BY <1>15 DEF Clean
    <2>3. OpenMeansComplete' /\ UnfinishedIsInTheMaking'
      BY <1>15 DEF Clean
    <2> HIDE DEF TypeOK, StartKnows, SamePassword, OpenMeansComplete, UnfinishedIsInTheMaking
    <2> QED
      BY <2>1, <2>2, <2>3
  <1>16. CASE Kill
    <2>1. TypeOK'
      BY <1>16 DEF Kill, Torn
    <2>2. StartKnows' /\ SamePassword'
      BY <1>16 DEF Kill, Torn
    <2>3. OpenMeansComplete' /\ UnfinishedIsInTheMaking'
      BY <1>16 DEF Kill, Torn
    <2> HIDE DEF TypeOK, StartKnows, SamePassword, OpenMeansComplete, UnfinishedIsInTheMaking
    <2> QED
      BY <2>1, <2>2, <2>3
  <1>17. CASE JobEnds
    <2>1. TypeOK'
      BY <1>17 DEF JobEnds, Torn
    <2>2. StartKnows' /\ SamePassword'
      BY <1>17 DEF JobEnds, Torn
    <2>3. OpenMeansComplete' /\ UnfinishedIsInTheMaking'
      BY <1>17 DEF JobEnds, Torn
    <2> HIDE DEF TypeOK, StartKnows, SamePassword, OpenMeansComplete, UnfinishedIsInTheMaking
    <2> QED
      BY <2>1, <2>2, <2>3
  <1>18. CASE UNCHANGED vars
    BY <1>18
  <1> QED
    BY <1>1, <1>2, <1>3, <1>4, <1>5, <1>6, <1>7, <1>8, <1>9, <1>10, <1>11, <1>12, <1>13,
       <1>14, <1>15, <1>16, <1>17, <1>18 DEF Next

\* The invariant holds in every reachable state.
THEOREM Invariance == Spec => []IInv
  BY InitInvariant, NextInvariant, PTL DEF Spec

-----------------------------------------------------------------------------
\* Every reachable state is well typed, and a command of start finds a
\* container and, where it needs it, a server.
THEOREM TypeCorrect == Spec => []TypeOK
  <1>1. IInv => TypeOK
    BY DEF IInv
  <1> QED
    BY <1>1, Invariance, PTL

\* However many starts fail or are killed, in however many jobs: a cluster is
\* opened on a finished metastore, or on one that an earlier start left spoiled.
THEOREM OpensOnlyComplete == Spec => []OpenMeansComplete
  <1>1. IInv => OpenMeansComplete
    BY DEF IInv
  <1> QED
    BY <1>1, Invariance, PTL

\* No start leaves an unfinished metastore behind unnoticed.
THEOREM UnfinishedOnlyInTheMaking == Spec => []UnfinishedIsInTheMaking
  <1>1. IInv => UnfinishedIsInTheMaking
    BY DEF IInv
  <1> QED
    BY <1>1, Invariance, PTL

\* The role gets the password that hive-site.xml has, after any number of
\* configures and however its command ends.
THEOREM RoleAndSiteAgree == Spec => RoleGetsTheSitesPassword
  <1>1. IInv /\ [Next]_vars => [role' \notin {role, None} => role' = site]_vars
    <2> SUFFICES ASSUME IInv, Next, role' \notin {role, None} PROVE role' = site
      OBVIOUS
    <2>1. site = password
      BY DEF IInv, SamePassword
    <2>2. role' = password
      BY DEF Next, Configure, BeginStart, StartContainer, Look, Initdb, PgCtl, Createdb,
             CreateRole, InitHive, Schematool, SetupFails, OthersStart, OthersFail, Stop,
             Clean, Kill, JobEnds
    <2> QED
      BY <2>1, <2>2
  <1> QED
    BY <1>1, Invariance, PTL DEF Spec, RoleGetsTheSitesPassword
=============================================================================
