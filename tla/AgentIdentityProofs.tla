-------------------------- MODULE AgentIdentityProofs --------------------------
(***************************************************************************)
(* Who an agent is, proved for any number of instances, tokens, deployments *)
(* and faults.                                                              *)
(*                                                                         *)
(* A token belongs to one instance for ever (owner), so that every pair the *)
(* gateway answers with belongs together, and stays so while the instance   *)
(* it names is deleted and created again.                                   *)
(***************************************************************************)
EXTENDS AgentIdentity, SequenceTheorems, TLAPS

USE NoneAssumption, BoundAssumption

-----------------------------------------------------------------------------
(***************************************************************************)
(* Types.  A process has read its configuration and knows what it presents. *)
(***************************************************************************)
Running == conn # "off" => own \in Presented /\ config # None
Saving == conn = "saving" => own \in Pair
TypeInv == TypeOK /\ Running /\ Saving

LEMMA PairPresented == Pair \subseteq Presented
BY DEF Pair, Presented

LEMMA EndsTyped == ASSUME Ends PROVE /\ own' = None /\ conn' = "off" /\ as' = None
                                     /\ answers' \in Seq(Pair \cup {None})
BY EmptySeq DEF Ends

LEMMA LoadedTyped ==
  ASSUME config \in Presented, file \in Pair \cup {None} PROVE Loaded \in Presented
BY PairPresented DEF Loaded

LEMMA OneTyped == ASSUME NEW S, NEW a \in S PROVE <<a>> \in Seq(S)
OBVIOUS

LEMMA TypeStep == ASSUME TypeInv, [Next]_vars PROVE TypeInv'
<1> USE DEF TypeInv, TypeOK, Running, Saving, Exists, Fault
<1>1. CASE \E i \in Id, t \in Token : Create(i, t)
  BY <1>1, ZenonT(40) DEF Create, connVars
<1>2. ASSUME NEW G \in SUBSET Id, Remove(G) PROVE TypeInv'
  <2>1. entries' \in [Id -> Token \cup {None}]
    BY <1>2 DEF Remove
  <2>2. as' \in Id \cup {None} /\ answers' \in Seq(Pair \cup {None})
    <3>1. CASE as \in G
      BY <1>2, <3>1 DEF Remove, CloseConnection
    <3>2. CASE as \notin G
      BY <1>2, <3>2 DEF Remove, CloseConnection
    <3> QED BY <3>1, <3>2
  <2>3. UNCHANGED <<owner, config, file, own, conn, deploys, faults>>
    BY <1>2 DEF Remove
  <2> QED BY <2>1, <2>2, <2>3
<1>3. ASSUME NEW i \in Id, NEW named \in BOOLEAN, Deploy(i, named) PROVE TypeInv'
  <2>1. config' \in Presented
    BY <1>3 DEF Deploy, Presented
  <2>2. deploys' \in 0 .. MaxDeploys /\ UNCHANGED <<entries, owner, file, faults>>
    BY <1>3 DEF Deploy, gatewayVars
  <2> QED BY <1>3, <2>1, <2>2, EndsTyped DEF Deploy
<1>4. CASE Start
  BY <1>4, LoadedTyped DEF Start, gatewayVars
<1>5. CASE Register
  BY <1>5 DEF Register, gatewayVars
<1>6. CASE Answer
  <2>1. as' \in Id \cup {None} /\ answers' \in Seq(Pair \cup {None})
    <3>1. CASE \E i \in Id : Entitled(i)
      <4>1. PICK i \in Id : Entitled(i) /\ as' = i
                            /\ answers' = <<[id |-> i, token |-> entries[i]]>>
        BY <1>6, <3>1 DEF Answer
      <4>2. [id |-> i, token |-> entries[i]] \in Pair
        <5>1. own.token \in Token
          BY <1>6 DEF Answer, Presented
        <5> QED BY <4>1, <5>1 DEF Entitled, Pair
      <4> QED BY <4>1, <4>2
    <3>2. CASE ~ \E i \in Id : Entitled(i)
      <4>1. answers' = <<None>> /\ as' = as
        BY <1>6, <3>2 DEF Answer
      <4>2. answers' \in Seq(Pair \cup {None})
        BY <4>1, OneTyped
      <4> QED BY <4>1, <4>2
    <3> QED BY <3>1, <3>2
  <2> QED BY <1>6, <2>1 DEF Answer, gatewayVars
<1>7. CASE Rejected
  BY <1>7, EndsTyped DEF Rejected, gatewayVars
<1>8. CASE Confirmed
  <2>1. own' \in Pair /\ answers' \in Seq(Pair \cup {None})
    BY <1>8 DEF Confirmed, Assigned
  <2> QED BY <1>8, <2>1, PairPresented DEF Confirmed, WriteTmp, gatewayVars
<1>9. CASE Rename
  BY <1>9 DEF Rename, gatewayVars
<1>10. CASE Crash
  BY <1>10, EndsTyped DEF Crash, gatewayVars
<1>11. CASE Lost
  <2>1. <<>> \in Seq(Pair \cup {None})
    BY EmptySeq
  <2> QED BY <1>11, <2>1 DEF Lost, gatewayVars
<1>12. CASE UNCHANGED vars
  BY <1>12 DEF vars, gatewayVars, connVars
<1> QED BY <1>1, <1>2, <1>3, <1>4, <1>5, <1>6, <1>7, <1>8, <1>9, <1>10, <1>11, <1>12 DEF Next

\* Every variable has its type.
THEOREM TypeCorrect == Spec => []TypeInv
<1>1. Init => TypeInv
  BY EmptySeq DEF Init, TypeInv, TypeOK, Running, Saving
<1> QED BY <1>1, TypeStep, PTL DEF Spec

-----------------------------------------------------------------------------
(***************************************************************************)
(* Identity.  An instance's token is one it owns; what is on its way to the *)
(* agent, and what the agent is about to save, belongs together.            *)
(***************************************************************************)
Owned == \A i \in Id : entries[i] # None => owner[entries[i]] = i
Quiet == conn = "off" => as = None /\ answers = <<>>
Belongs(a) == owner[a.token] = a.id
InFlight ==
  \A k \in DOMAIN answers :
    answers[k] # None => answers[k].token = own.token /\ Belongs(answers[k])
Assured == conn = "saving" => Belongs(own)
IdentityInv == Owned /\ Quiet /\ InFlight /\ Assured /\ NoImpostor /\ SavedPairBelongs

\* A token keeps its owner.
LEMMA OwnerKept ==
  ASSUME TypeInv, [Next]_vars, NEW t \in Token, owner[t] # None
  PROVE  owner'[t] = owner[t]
<1>1. CASE \E i \in Id, s \in Token : Create(i, s)
  BY <1>1 DEF Create, TypeInv, TypeOK
<1>2. CASE UNCHANGED owner
  BY <1>2
<1>3. CASE \E i \in Id, named \in BOOLEAN : Deploy(i, named)
  BY <1>3 DEF Deploy, gatewayVars
<1>4. CASE UNCHANGED vars
  BY <1>4 DEF vars, gatewayVars
<1> QED BY <1>1, <1>2, <1>3, <1>4 DEF Next, Remove, Start, Register, Answer, Rejected, Confirmed,
        Rename, Crash, Lost, gatewayVars

LEMMA BelongsKept ==
  ASSUME TypeInv, [Next]_vars, NEW a \in Pair, Belongs(a)
  PROVE  Belongs(a)'
BY OwnerKept DEF Belongs, Pair

LEMMA EndsInert == ASSUME Ends PROVE Quiet' /\ InFlight' /\ Assured' /\ NoImpostor'
BY DEF Ends, Quiet, InFlight, Assured, NoImpostor

\* Steps that leave the connection alone.
LEMMA InertStep ==
  ASSUME TypeInv, IdentityInv, [Next]_vars, UNCHANGED <<own, conn, as, answers>>
  PROVE  Quiet' /\ InFlight' /\ Assured'
<1> USE DEF TypeInv, IdentityInv
<1>1. Quiet'
  BY DEF Quiet
<1>2. Assured'
  BY BelongsKept DEF Assured, Saving, Belongs
<1>3. InFlight'
  <2>1. ASSUME NEW k \in DOMAIN answers, answers[k] # None
        PROVE  Belongs(answers[k])'
    <3>1. answers[k] \in Pair /\ Belongs(answers[k])
      BY <2>1 DEF TypeOK, InFlight
    <3> QED BY <3>1, BelongsKept
  <2> QED BY <2>1 DEF InFlight, Belongs
<1> QED BY <1>1, <1>2, <1>3

LEMMA SavedKept ==
  ASSUME TypeInv, IdentityInv, [Next]_vars, UNCHANGED file
  PROVE  SavedPairBelongs'
<1>1. file # None => file \in Pair /\ Belongs(file)
  BY DEF TypeInv, TypeOK, IdentityInv, SavedPairBelongs, Belongs
<1> QED BY <1>1, BelongsKept DEF SavedPairBelongs, Belongs

LEMMA OwnedStep == ASSUME TypeInv, Owned, [Next]_vars PROVE Owned'
<1> USE DEF TypeInv, TypeOK, Owned
<1>1. ASSUME NEW i \in Id, NEW t \in Token, Create(i, t) PROVE Owned'
  BY <1>1 DEF Create, Exists
<1>2. ASSUME NEW G, Remove(G) PROVE Owned'
  BY <1>2 DEF Remove
<1>3. CASE UNCHANGED <<entries, owner>>
  BY <1>3
<1> QED BY <1>1, <1>2, <1>3 DEF Next, Deploy, Start, Register, Answer, Rejected, Confirmed,
        Rename, Crash, Lost, vars, gatewayVars

LEMMA IdentityStep == ASSUME TypeInv, IdentityInv, [Next]_vars PROVE IdentityInv'
<1>1. Owned'
  BY OwnedStep DEF IdentityInv
<1> USE DEF TypeInv, TypeOK
<1>2. CASE \E i \in Id, t \in Token : Create(i, t)
  <2>1. PICK i \in Id, t \in Token : Create(i, t)
    BY <1>2
  <2>2. NoImpostor'
    <3>1. as # None => as \in Id /\ entries[as] = own.token /\ own.token \in Token
      BY DEF IdentityInv, NoImpostor, Quiet, Running, Presented
    <3>2. as' = as /\ own' = own /\ entries[i] = None /\ entries' = [entries EXCEPT ![i] = t]
      BY <2>1 DEF Create, Exists, connVars
    <3>3. as # None => as # i
      BY <3>1, <3>2
    <3> QED BY <3>1, <3>2, <3>3 DEF NoImpostor
  <2> QED BY <1>1, <2>1, <2>2, InertStep, SavedKept DEF Create, connVars, IdentityInv
<1>3. ASSUME NEW G \in SUBSET Id, Remove(G) PROVE IdentityInv'
  <2>1. UNCHANGED <<owner, file, own, conn>>
    BY <1>3 DEF Remove
  <2>2. CASE as \in G
    <3>1. as' = None /\ answers' = Append(answers, None)
      BY <1>3, <2>2 DEF Remove, CloseConnection
    <3>2. Quiet'
      BY <2>1, <2>2 DEF IdentityInv, Quiet
    <3>3. InFlight'
      BY <2>1, <3>1 DEF IdentityInv, InFlight, Belongs
    <3>4. NoImpostor' /\ Assured'
      BY <2>1, <3>1 DEF IdentityInv, NoImpostor, Assured, Belongs
    <3> QED BY <1>1, <2>1, <3>2, <3>3, <3>4, SavedKept DEF IdentityInv
  <2>3. CASE as \notin G
    <3>1. UNCHANGED <<as, answers>>
      BY <1>3, <2>3 DEF Remove, CloseConnection
    <3>2. NoImpostor'
      BY <1>3, <2>1, <2>3, <3>1 DEF Remove, IdentityInv, NoImpostor
    <3> QED BY <1>1, <2>1, <3>1, <3>2, InertStep, SavedKept DEF IdentityInv
  <2> QED BY <2>2, <2>3
<1>4. CASE \E i \in Id, named \in BOOLEAN : Deploy(i, named)
  BY <1>1, <1>4, EndsInert, SavedKept DEF Deploy, IdentityInv
<1>5. CASE Start
  BY <1>1, <1>5, SavedKept DEF Start, IdentityInv, Quiet, InFlight, Assured, NoImpostor
<1>6. CASE Register
  BY <1>1, <1>6, SavedKept
     DEF Register, IdentityInv, Quiet, InFlight, Assured, NoImpostor, Belongs, gatewayVars
<1>7. CASE Answer
  <2>1. conn = "sent" /\ answers = <<>> /\ UNCHANGED <<entries, owner, file, own, conn>>
    BY <1>7 DEF Answer, gatewayVars
  <2>2. InFlight' /\ NoImpostor'
    <3>1. CASE \E i \in Id : Entitled(i)
      <4>1. PICK i \in Id : Entitled(i) /\ as' = i
                            /\ answers' = <<[id |-> i, token |-> entries[i]]>>
        BY <1>7, <3>1 DEF Answer
      <4>2. entries[i] = own.token /\ own.token \in Token
        BY <2>1, <4>1 DEF Entitled, Running, Presented
      <4>3. owner[entries[i]] = i
        BY <4>2 DEF IdentityInv, Owned
      <4>4. NoImpostor'
        BY <2>1, <4>1, <4>2 DEF NoImpostor
      <4>5. InFlight'
        BY <2>1, <4>1, <4>2, <4>3 DEF InFlight, Belongs
      <4> QED BY <4>4, <4>5
    <3>2. CASE ~ \E i \in Id : Entitled(i)
      <4>1. answers' = <<None>> /\ as' = as
        BY <1>7, <3>2 DEF Answer
      <4>2. \A k \in DOMAIN answers' : answers'[k] = None
        BY <4>1
      <4> QED BY <2>1, <4>1, <4>2 DEF IdentityInv, InFlight, NoImpostor
    <3> QED BY <3>1, <3>2
  <2>3. Quiet' /\ Assured'
    BY <2>1 DEF Quiet, Assured
  <2> QED BY <1>1, <2>1, <2>2, <2>3, SavedKept DEF IdentityInv
<1>8. CASE Rejected \/ Crash
  BY <1>1, <1>8, EndsInert, SavedKept DEF Rejected, Crash, IdentityInv
<1>9. CASE Confirmed
  <2>1. /\ answers # <<>> /\ Head(answers) # None /\ conn' = "saving"
        /\ own' = Head(answers) /\ answers' = Tail(answers)
        /\ UNCHANGED <<entries, owner, file, as>>
    BY <1>9 DEF Confirmed, Assigned, WriteTmp, gatewayVars
  <2>2. /\ 1 \in DOMAIN answers /\ Head(answers) = answers[1]
        /\ \A k \in DOMAIN Tail(answers) :
             k + 1 \in DOMAIN answers /\ Tail(answers)[k] = answers[k + 1]
    BY <2>1
  <2>3. own'.token = own.token /\ Belongs(Head(answers))
    BY <2>1, <2>2 DEF IdentityInv, InFlight
  <2>4. Assured' /\ Quiet' /\ NoImpostor'
    BY <2>1, <2>3 DEF Assured, Quiet, Belongs, IdentityInv, NoImpostor
  <2>5. InFlight'
    BY <2>1, <2>2, <2>3 DEF InFlight, IdentityInv, Belongs
  <2> QED BY <1>1, <2>1, <2>4, <2>5, SavedKept DEF IdentityInv
<1>10. CASE Rename
  <2>1. conn = "saving" /\ file' = own /\ UNCHANGED <<entries, owner, own, as, answers>>
    BY <1>10 DEF Rename, gatewayVars
  <2>2. SavedPairBelongs'
    BY <2>1 DEF SavedPairBelongs, IdentityInv, Assured, Belongs
  <2>3. Quiet' /\ InFlight' /\ Assured' /\ NoImpostor'
    BY <1>10, <2>1 DEF Rename, IdentityInv, Quiet, InFlight, Assured, NoImpostor, Belongs
  <2> QED BY <1>1, <2>2, <2>3 DEF IdentityInv
<1>11. CASE Lost
  <2>1. conn' = "connecting" /\ as' = None /\ answers' = <<>> /\ UNCHANGED file
    BY <1>11 DEF Lost
  <2>2. Quiet' /\ InFlight' /\ Assured' /\ NoImpostor'
    BY <2>1 DEF Quiet, InFlight, Assured, NoImpostor
  <2> QED BY <1>1, <2>1, <2>2, SavedKept DEF IdentityInv
<1>12. CASE UNCHANGED vars
  BY <1>12 DEF vars, gatewayVars, connVars, IdentityInv, Owned, Quiet, InFlight, Assured,
       NoImpostor, SavedPairBelongs, Belongs
<1> QED BY <1>2, <1>3, <1>4, <1>5, <1>6, <1>7, <1>8, <1>9, <1>10, <1>11, <1>12 DEF Next

LEMMA IdentityHolds == Spec => []IdentityInv
<1>1. Init => IdentityInv
  BY DEF Init, IdentityInv, Owned, Quiet, InFlight, Assured, NoImpostor, SavedPairBelongs
<1> QED BY <1>1, IdentityStep, TypeCorrect, PTL DEF Spec

\* No agent is ever registered as an instance whose token is not the one it holds
\* (handleControl, remove).
THEOREM NeverImpostor == Spec => []NoImpostor
<1>1. IdentityInv => NoImpostor
  BY DEF IdentityInv
<1> QED BY <1>1, IdentityHolds, PTL

\* The id and the token in agent-state.jsonc belong together (onRegistered).
THEOREM SavedPairSafe == Spec => []SavedPairBelongs
<1>1. IdentityInv => SavedPairBelongs
  BY DEF IdentityInv
<1> QED BY <1>1, IdentityHolds, PTL

\* No crash at any point of saveAgentState loses what was saved before.
THEOREM SavedForGood == Spec => NeverForgets
<1>1. TypeInv /\ [Next]_vars => [file # None => file' # None]_vars
  <2> SUFFICES ASSUME TypeInv, [Next]_vars, file # None PROVE file' # None
    OBVIOUS
  <2>1. CASE Rename
    BY <2>1, PairPresented DEF Rename, TypeInv, Saving
  <2>2. CASE UNCHANGED file
    BY <2>2
  <2>3. CASE \E i \in Id, t \in Token : Create(i, t)
    BY <2>3 DEF Create
  <2>4. CASE \E i \in Id, named \in BOOLEAN : Deploy(i, named)
    BY <2>4 DEF Deploy
  <2> QED BY <2>1, <2>2, <2>3, <2>4 DEF Next, Remove, Start, Register, Answer, Rejected,
          Confirmed, WriteTmp, Crash, Lost, vars
<1> QED BY <1>1, TypeCorrect, PTL DEF Spec, NeverForgets

=============================================================================
