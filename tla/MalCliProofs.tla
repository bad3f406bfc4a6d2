----------------------------- MODULE MalCliProofs -----------------------------
(***************************************************************************)
(* The stored credential and the stored login stay usable, but for the     *)
(* losses that CredentialUsable and LoginUsable name, for any number of    *)
(* runs, commands and tokens, and all faults.                              *)
(***************************************************************************)
EXTENDS MalCli, TLAPS

USE CredentialAssumption, CliAssumption

\* What transactions have exchanged are tokens.
LEMMA ExchangedTokens ==
    ASSUME NEW S, from \in [Runs -> S \cup {NoToken}], NEW R \in SUBSET Runs
    PROVE  Exchanged(R) \subseteq S
  BY DEF Exchanged

\* A new token is the next number.
LEMMA NextToken ==
    ASSUME NEW n \in Nat
    PROVE  n + 1 \in Nat /\ n + 1 \in 1..(n + 1) /\ 1..n \subseteq 1..(n + 1)
  OBVIOUS

LEMMA Replacement ==
    ASSUME NEW n \in Nat, NEW S, NEW t
    PROVE  S \in SUBSET Nat => (S \ {t}) \cup {n + 1} \in SUBSET Nat
  BY NextToken

LEMMA StepTypes ==
    ASSUME TypeOK, [Next]_vars
    PROVE  TypeOK'
  <1> USE DEF TypeOK, CredentialTypeOK, Open, AnyKind, server, requests, cli, provider, stored,
             runs, malServer, command
  <1>1. CASE Ages /\ UNCHANGED cli
    BY <1>1 DEF Ages
  <1>2. CASE ServerCrashes /\ UNCHANGED cli
    <2>1. Exchanged(Runs) \subseteq Nat
      BY ZenonT(60), ExchangedTokens
    <2>2. at' \in [Runs -> Open \cup {"over", "orphan"}] /\ lock' = NoOne
      BY <1>2 DEF ServerCrashes
    <2>3. request' \in [Commands -> {"none", "put", "delete", "list", "answered"}]
      BY <1>2 DEF ServerCrashes
    <2>4. forsaken' \in SUBSET Nat
      BY <1>2, <2>1 DEF ServerCrashes
    <2> QED
      BY <1>2, <2>2, <2>3, <2>4 DEF ServerCrashes
  <1>3. ASSUME NEW r \in Runs, ReadsCredential(r), UNCHANGED cli PROVE TypeOK'
    BY <1>3 DEF ReadsCredential, FallsBack
  <1>4. ASSUME NEW r \in Runs, Refreshes(r), UNCHANGED cli PROVE TypeOK'
    <2>1. issued + 1 \in Nat /\ issued' \in Nat /\ accepted' \in SUBSET Nat
      <3>1. CASE Replaces(held[r])
        BY <3>1, NextToken, Replacement DEF Replaces
      <3>2. CASE UNCHANGED <<issued, accepted, held>>
        BY <3>2, NextToken
      <3> QED
        BY <1>4, <3>1, <3>2 DEF Refreshes
    <2>2. lock' \in {NoOne} \cup {q \in Runs : at'[q] = "sandbox"}
      BY <1>4 DEF Refreshes
    <2> QED
      BY <1>4, <2>1, <2>2 DEF Refreshes
  <1>5. ASSUME NEW r \in Runs, RefreshFails(r), UNCHANGED cli PROVE TypeOK'
    <2>1. issued' \in Nat /\ accepted' \in SUBSET Nat /\ forsaken' \in SUBSET Nat
      <3>1. CASE UNCHANGED provider
        BY <3>1
      <3>2. CASE Rejects(held[r])
        BY <3>2 DEF Rejects
      <3>3. CASE Replaces(held[r]) /\ forsaken' = forsaken \cup {held[r]}
        <4>1. held[r] \in Nat
          BY <3>3 DEF Replaces
        <4>2. issued' \in Nat /\ accepted' \in SUBSET Nat
          BY <3>3, NextToken, Replacement DEF Replaces
        <4> QED
          BY <3>3, <4>1, <4>2
      <3> QED
        BY <1>5, <3>1, <3>2, <3>3 DEF RefreshFails
    <2>2. lock' \in {NoOne} \cup {q \in Runs : at'[q] = "sandbox"}
      BY <1>5 DEF RefreshFails, FallsBack
    <2> QED
      BY <1>5, <2>1, <2>2 DEF RefreshFails, FallsBack
  <1>6. ASSUME NEW r \in Runs, Upserts(r), UNCHANGED cli PROVE TypeOK'
    BY <1>6 DEF Upserts
  <1>7. ASSUME NEW r \in Runs, RunCommits(r), UNCHANGED cli PROVE TypeOK'
    <2>1. row' \in Nat \cup {NoToken} /\ old' \in BOOLEAN
      BY <1>7, ZenonT(60) DEF RunCommits
    <2>2. lock' \in {NoOne} \cup {q \in Runs : at'[q] = "sandbox"}
      BY <1>7 DEF RunCommits
    <2> QED
      BY <1>7, <2>1, <2>2 DEF RunCommits
  <1>8. ASSUME NEW r \in Runs, RunThrows(r), UNCHANGED cli PROVE TypeOK'
    <2>0. {r} \in SUBSET Runs
      OBVIOUS
    <2>1. Exchanged({r}) \subseteq Nat
      BY ONLY <2>0, ExchangedTokens, TypeOK DEF TypeOK, CredentialTypeOK
    <2>2. forsaken' \in SUBSET Nat
      BY <1>8, <2>1 DEF RunThrows
    <2>3. PICK place \in {"over", "orphan"} : at' = [at EXCEPT ![r] = place]
      BY <1>8 DEF RunThrows, Left
    <2>4. lock' \in {NoOne} \cup {q \in Runs : at'[q] = "sandbox"}
      BY <1>8, <2>3 DEF RunThrows
    <2> QED
      BY <1>8, <2>2, <2>3, <2>4 DEF RunThrows
  <1>9. ASSUME NEW c \in Commands, RefusesRequest(c), UNCHANGED cli PROVE TypeOK'
    BY <1>9 DEF RefusesRequest, Answer
  <1>10. ASSUME NEW c \in Commands, ListsCredentials(c), UNCHANGED cli PROVE TypeOK'
    BY <1>10 DEF ListsCredentials, Answer
  <1>11. ASSUME NEW c \in Commands, PutsCredential(c), UNCHANGED cli PROVE TypeOK'
    BY <1>11 DEF PutsCredential, Answer
  <1>12. ASSUME NEW c \in Commands, DeletesCredential(c), UNCHANGED cli PROVE TypeOK'
    BY <1>12 DEF DeletesCredential, Answer
  <1>13. CASE LoginExpires
    BY <1>13 DEF LoginExpires
  <1>14. ASSUME NEW c \in Commands, ReadsToken(c) PROVE TypeOK'
    BY <1>14 DEF ReadsToken, End, Goto, Authorised
  <1>15. ASSUME NEW c \in Commands, RefreshesLogin(c) PROVE TypeOK'
    <2>1. malIssued + 1 \in Nat /\ malIssued' \in Nat /\ malAccepted' \in SUBSET Nat
      BY <1>15, NextToken, Replacement DEF RefreshesLogin, ReplacesLogin
    <2> QED
      BY <1>15, <2>1 DEF RefreshesLogin, Goto
  <1>16. ASSUME NEW c \in Commands, LoginExpired(c) PROVE TypeOK'
    <2>1. malIssued' \in Nat /\ malAccepted' \in SUBSET Nat /\ malForsaken' \in SUBSET Nat
      <3>1. CASE malIssued' = malIssued /\ malAccepted' = malAccepted /\ malForsaken' = malForsaken
        BY <3>1
      <3>2. CASE malIssued' = malIssued /\ malAccepted' = {} /\ malForsaken' = malForsaken \cup malAccepted
        BY <3>2
      <3>3. CASE ReplacesLogin(mal[c]) /\ malForsaken' = malForsaken \cup {mal[c]}
        <4>1. mal[c] \in Nat
          BY <3>3 DEF ReplacesLogin
        <4>2. malIssued' \in Nat /\ malAccepted' \in SUBSET Nat
          BY <3>3, NextToken, Replacement DEF ReplacesLogin
        <4> QED
          BY <3>3, <4>1, <4>2
      <3> QED
        BY <1>16, <3>1, <3>2, <3>3 DEF LoginExpired
    <2> QED
      BY <1>16, <2>1 DEF LoginExpired, End
  <1>17. ASSUME NEW c \in Commands, OpensFile(c) PROVE TypeOK'
    BY <1>17 DEF OpensFile, Goto, Hold
  <1>18. ASSUME NEW c \in Commands, WritesFile(c) PROVE TypeOK'
    <2>1. file' \in Nat \cup {NoToken, Torn} /\ spoilt' \in BOOLEAN
      BY <1>18 DEF WritesFile
    <2>2. CASE kind[c] = "login"
      BY <1>18, <2>1, <2>2 DEF WritesFile, End
    <2>3. CASE kind[c] # "login"
      BY <1>18, <2>1, <2>3 DEF WritesFile, Goto, Authorised
    <2> QED
      BY <2>2, <2>3
  <1>19. ASSUME NEW c \in Commands, ClearsFile(c) PROVE TypeOK'
    BY <1>19 DEF ClearsFile, End
  <1>20. ASSUME NEW c \in Commands, Listens(c) PROVE TypeOK'
    BY <1>20 DEF Listens, Taken, End, Goto, Hold
  <1>21. ASSUME NEW c \in Commands, FlowFails(c) PROVE TypeOK'
    BY <1>21 DEF FlowFails, End
  <1>22. ASSUME NEW c \in Commands, LogsIn(c) PROVE TypeOK'
    BY <1>22 DEF LogsIn, End, Goto
  <1>23. ASSUME NEW c \in Commands, ObtainsBundle(c) PROVE TypeOK'
    BY <1>23 DEF ObtainsBundle, Goto, Hold
  <1>24. ASSUME NEW c \in Commands, Sends(c) PROVE TypeOK'
    BY <1>24 DEF Sends, Answer, Goto, Hold
  <1>25. ASSUME NEW c \in Commands, Receives(c) PROVE TypeOK'
    BY <1>25 DEF Receives, Answer, End
  <1>26. ASSUME NEW c \in Commands, Killed(c) PROVE TypeOK'
    BY <1>26 DEF Killed, End
  <1>27. ASSUME NEW c \in Commands, NEW k \in Kinds[c], Invokes(c, k) PROVE TypeOK'
    BY <1>27 DEF Invokes, Goto
  <1>28. ASSUME NEW c \in Commands, NEW z \in Commands, CallsBack(c, z) PROVE TypeOK'
    BY <1>28 DEF CallsBack, End, Goto, Hold
  <1>29. CASE UNCHANGED vars
    BY <1>29 DEF vars
  <1>30. ASSUME NEW r \in Runs, AgentExchanges(r), UNCHANGED cli PROVE TypeOK'
    <2>1. issued' \in Nat /\ accepted' \in SUBSET Nat /\ forsaken' \in SUBSET Nat
      <3>1. CASE Rejects(held[r])
        BY <3>1 DEF Rejects
      <3>2. CASE Replaces(held[r]) /\ forsaken' = forsaken \cup {held[r]}
        <4>1. held[r] \in Nat
          BY <3>2 DEF Replaces
        <4>2. issued' \in Nat /\ accepted' \in SUBSET Nat
          BY <3>2, NextToken, Replacement DEF Replaces
        <4> QED
          BY <3>2, <4>1, <4>2
      <3> QED
        BY <1>30, <3>1, <3>2 DEF AgentExchanges
    <2> QED
      BY <1>30, <2>1 DEF AgentExchanges
  <1> QED
    BY <1>1, <1>2, <1>3, <1>4, <1>5, <1>6, <1>7, <1>8, <1>9, <1>10, <1>11, <1>12, <1>13,
       <1>14, <1>15, <1>16, <1>17, <1>18, <1>19, <1>20, <1>21, <1>22, <1>23, <1>24, <1>25,
       <1>26, <1>27, <1>28, <1>29, <1>30
    DEF Next, CredentialNext, RunStep, ServerStep, CommandStep

LEMMA StepIssued ==
    ASSUME TypeOK, IssuedInv, [Next]_vars
    PROVE  IssuedInv'
  <1> USE DEF server, requests, cli, provider, stored, runs, malServer, command
  <1>1. ASSUME UNCHANGED <<issued, accepted, forsaken, row, held, from, bundle>> PROVE IssuedInv'
    BY <1>1 DEF TypeOK, CredentialTypeOK, IssuedInv, Open
  <1>2. CASE Ages /\ UNCHANGED cli
    BY <1>1, <1>2 DEF Ages
  <1>3. CASE ServerCrashes /\ UNCHANGED cli
    <2>1. Exchanged(Runs) \subseteq 1..issued
      BY ExchangedTokens DEF IssuedInv
    <2> QED
      BY <1>3, <2>1 DEF ServerCrashes, Left, IssuedInv
  <1>4. ASSUME NEW r \in Runs, ReadsCredential(r), UNCHANGED cli PROVE IssuedInv'
    BY <1>4 DEF ReadsCredential, FallsBack, TypeOK, CredentialTypeOK, IssuedInv, Open
  <1>5. ASSUME NEW r \in Runs, Refreshes(r), UNCHANGED cli PROVE IssuedInv'
    <2>1. CASE Replaces(held[r]) /\ held' = [held EXCEPT ![r] = issued + 1]
      <3>1. issued' \in 1..issued' /\ 1..issued \subseteq 1..issued'
        BY <2>1, NextToken DEF Replaces, TypeOK, CredentialTypeOK
      <3>2. accepted' \subseteq 1..issued' /\ issued' = issued + 1
        BY <2>1, <3>1 DEF Replaces, IssuedInv
      <3> QED
        BY <1>5, <2>1, <3>1, <3>2 DEF Refreshes, IssuedInv
    <2>2. CASE UNCHANGED <<issued, accepted, held>>
      BY <1>5, <2>2 DEF Refreshes, IssuedInv
    <2> QED
      BY <1>5, <2>1, <2>2 DEF Refreshes
  <1>6. ASSUME NEW r \in Runs, RefreshFails(r), UNCHANGED cli PROVE IssuedInv'
    <2>1. 1..issued \subseteq 1..issued'
      BY <1>6, NextToken DEF RefreshFails, Rejects, Replaces, TypeOK, CredentialTypeOK
    <2>2. accepted' \cup forsaken' \subseteq 1..issued'
      <3>1. CASE UNCHANGED provider
        BY <3>1 DEF IssuedInv
      <3>2. CASE Rejects(held[r])
        BY <3>2 DEF Rejects, IssuedInv
      <3>3. CASE Replaces(held[r]) /\ forsaken' = forsaken \cup {held[r]}
        <4>1. accepted' \subseteq 1..issued'
          <5>1. issued' \in 1..issued' /\ issued' = issued + 1
            BY <3>3, NextToken DEF Replaces, TypeOK, CredentialTypeOK
          <5> QED
            BY <3>3, <2>1, <5>1 DEF Replaces, IssuedInv
        <4>2. forsaken' \subseteq 1..issued'
          <5>1. held[r] \in 1..issued
            BY <3>3 DEF Replaces, IssuedInv
          <5> QED
            BY <3>3, <2>1, <5>1 DEF IssuedInv
        <4> QED
          BY <4>1, <4>2
      <3> QED
        BY <1>6, <3>1, <3>2, <3>3 DEF RefreshFails
    <2> QED
      BY <1>6, <2>1, <2>2 DEF RefreshFails, FallsBack, IssuedInv
  <1>7. ASSUME NEW r \in Runs, Upserts(r), UNCHANGED cli PROVE IssuedInv'
    BY <1>1, <1>7 DEF Upserts
  <1>8. ASSUME NEW r \in Runs, RunCommits(r), UNCHANGED cli PROVE IssuedInv'
    BY <1>8 DEF RunCommits, TypeOK, CredentialTypeOK, IssuedInv, Open
  <1>9. ASSUME NEW r \in Runs, RunThrows(r), UNCHANGED cli PROVE IssuedInv'
    <2>1. Exchanged({r}) \subseteq 1..issued
      BY ExchangedTokens DEF IssuedInv
    <2> QED
      BY <1>9, <2>1 DEF RunThrows, Left, IssuedInv
  <1>10. ASSUME NEW c \in Commands, RefusesRequest(c), UNCHANGED cli PROVE IssuedInv'
    BY <1>1, <1>10 DEF RefusesRequest, Answer
  <1>11. ASSUME NEW c \in Commands, ListsCredentials(c), UNCHANGED cli PROVE IssuedInv'
    BY <1>1, <1>11 DEF ListsCredentials, Answer
  <1>12. ASSUME NEW c \in Commands, PutsCredential(c), UNCHANGED cli PROVE IssuedInv'
    BY <1>12 DEF PutsCredential, Answer, TypeOK, CredentialTypeOK, IssuedInv, Open
  <1>13. ASSUME NEW c \in Commands, DeletesCredential(c), UNCHANGED cli PROVE IssuedInv'
    BY <1>13 DEF DeletesCredential, Answer, TypeOK, CredentialTypeOK, IssuedInv, Open
  <1>14. CASE LoginExpires
    BY <1>1, <1>14 DEF LoginExpires
  <1>15. ASSUME NEW c \in Commands, ReadsToken(c) PROVE IssuedInv'
    BY <1>1, <1>15 DEF ReadsToken, End, Goto, Authorised
  <1>16. ASSUME NEW c \in Commands, RefreshesLogin(c) PROVE IssuedInv'
    BY <1>1, <1>16 DEF RefreshesLogin, Goto, ReplacesLogin
  <1>17. ASSUME NEW c \in Commands, LoginExpired(c) PROVE IssuedInv'
    BY <1>1, <1>17 DEF LoginExpired, End, ReplacesLogin
  <1>18. ASSUME NEW c \in Commands, OpensFile(c) PROVE IssuedInv'
    BY <1>1, <1>18 DEF OpensFile, Goto, Hold
  <1>19. ASSUME NEW c \in Commands, WritesFile(c) PROVE IssuedInv'
    BY <1>1, <1>19 DEF WritesFile, End, Goto, Authorised
  <1>20. ASSUME NEW c \in Commands, ClearsFile(c) PROVE IssuedInv'
    BY <1>1, <1>20 DEF ClearsFile, End
  <1>21. ASSUME NEW c \in Commands, Listens(c) PROVE IssuedInv'
    BY <1>1, <1>21 DEF Listens, Taken, End, Goto, Hold
  <1>22. ASSUME NEW c \in Commands, FlowFails(c) PROVE IssuedInv'
    BY <1>1, <1>22 DEF FlowFails, End
  <1>23. ASSUME NEW c \in Commands, LogsIn(c) PROVE IssuedInv'
    BY <1>1, <1>23 DEF LogsIn, End, Goto
  <1>24. ASSUME NEW c \in Commands, ObtainsBundle(c) PROVE IssuedInv'
    BY <1>24 DEF ObtainsBundle, Goto, Hold, TypeOK, CredentialTypeOK, IssuedInv, Open
  <1>25. ASSUME NEW c \in Commands, Sends(c) PROVE IssuedInv'
    BY <1>1, <1>25 DEF Sends, Answer, Goto, Hold
  <1>26. ASSUME NEW c \in Commands, Receives(c) PROVE IssuedInv'
    BY <1>26 DEF Receives, Answer, End, TypeOK, CredentialTypeOK, IssuedInv, Open
  <1>27. ASSUME NEW c \in Commands, Killed(c) PROVE IssuedInv'
    BY <1>1, <1>27 DEF Killed, End
  <1>28. ASSUME NEW c \in Commands, NEW k \in Kinds[c], Invokes(c, k) PROVE IssuedInv'
    BY <1>1, <1>28 DEF Invokes, Goto
  <1>29. ASSUME NEW c \in Commands, NEW z \in Commands, CallsBack(c, z) PROVE IssuedInv'
    BY <1>1, <1>29 DEF CallsBack, End, Goto, Hold
  <1>30. CASE UNCHANGED vars
    BY <1>1, <1>30 DEF vars
  <1>31. ASSUME NEW r \in Runs, AgentExchanges(r), UNCHANGED cli PROVE IssuedInv'
    <2>1. 1..issued \subseteq 1..issued'
      BY <1>31, NextToken DEF AgentExchanges, Rejects, Replaces, TypeOK, CredentialTypeOK
    <2>2. accepted' \cup forsaken' \subseteq 1..issued'
      <3>1. CASE Rejects(held[r])
        BY <3>1 DEF Rejects, IssuedInv
      <3>2. CASE Replaces(held[r]) /\ forsaken' = forsaken \cup {held[r]}
        <4>1. issued' \in 1..issued' /\ issued' = issued + 1
          BY <3>2, NextToken DEF Replaces, TypeOK, CredentialTypeOK
        <4>2. held[r] \in 1..issued
          BY <3>2 DEF Replaces, IssuedInv
        <4> QED
          BY <2>1, <3>2, <4>1, <4>2 DEF Replaces, IssuedInv
      <3> QED
        BY <1>31, <3>1, <3>2 DEF AgentExchanges
    <2> QED
      BY <1>31, <2>1, <2>2 DEF AgentExchanges, IssuedInv
  <1> QED
    BY <1>2, <1>3, <1>4, <1>5, <1>6, <1>7, <1>8, <1>9, <1>10, <1>11, <1>12, <1>13, <1>14,
       <1>15, <1>16, <1>17, <1>18, <1>19, <1>20, <1>21, <1>22, <1>23, <1>24, <1>25, <1>26,
       <1>27, <1>28, <1>29, <1>30, <1>31
    DEF Next, CredentialNext, RunStep, ServerStep, CommandStep

LEMMA StepRequests ==
    ASSUME TypeOK, RequestInv, [Next]_vars
    PROVE  RequestInv'
  <1> USE DEF TypeOK, CredentialTypeOK, RequestInv, server, requests, cli, provider, stored, runs,
             malServer, command
  <1>1. CASE Ages /\ UNCHANGED cli
    BY <1>1 DEF Ages
  <1>2. CASE ServerCrashes /\ UNCHANGED cli
    BY <1>2 DEF ServerCrashes, Left, Open, Exchanged
  <1>3. ASSUME NEW r \in Runs, ReadsCredential(r), UNCHANGED cli PROVE RequestInv'
    BY <1>3 DEF ReadsCredential, FallsBack
  <1>4. ASSUME NEW r \in Runs, Refreshes(r), UNCHANGED cli PROVE RequestInv'
    BY <1>4 DEF Refreshes, Replaces
  <1>5. ASSUME NEW r \in Runs, RefreshFails(r), UNCHANGED cli PROVE RequestInv'
    BY <1>5 DEF RefreshFails, FallsBack, Rejects, Replaces
  <1>6. ASSUME NEW r \in Runs, Upserts(r), UNCHANGED cli PROVE RequestInv'
    BY <1>6 DEF Upserts
  <1>7. ASSUME NEW r \in Runs, RunCommits(r), UNCHANGED cli PROVE RequestInv'
    BY <1>7 DEF RunCommits
  <1>8. ASSUME NEW r \in Runs, RunThrows(r), UNCHANGED cli PROVE RequestInv'
    BY <1>8 DEF RunThrows, Left, Open, Exchanged
  <1>9. ASSUME NEW c \in Commands, RefusesRequest(c), UNCHANGED cli PROVE RequestInv'
    BY <1>9 DEF RefusesRequest, Answer
  <1>10. ASSUME NEW c \in Commands, ListsCredentials(c), UNCHANGED cli PROVE RequestInv'
    BY <1>10 DEF ListsCredentials, Answer
  <1>11. ASSUME NEW c \in Commands, PutsCredential(c), UNCHANGED cli PROVE RequestInv'
    BY <1>11 DEF PutsCredential, Answer
  <1>12. ASSUME NEW c \in Commands, DeletesCredential(c), UNCHANGED cli PROVE RequestInv'
    BY <1>12 DEF DeletesCredential, Answer
  <1>13. CASE LoginExpires
    BY <1>13 DEF LoginExpires
  <1>14. ASSUME NEW c \in Commands, ReadsToken(c) PROVE RequestInv'
    BY <1>14 DEF ReadsToken, End, Goto, Authorised
  <1>15. ASSUME NEW c \in Commands, RefreshesLogin(c) PROVE RequestInv'
    BY <1>15 DEF RefreshesLogin, Goto, ReplacesLogin
  <1>16. ASSUME NEW c \in Commands, LoginExpired(c) PROVE RequestInv'
    BY <1>16 DEF LoginExpired, End, ReplacesLogin
  <1>17. ASSUME NEW c \in Commands, OpensFile(c) PROVE RequestInv'
    BY <1>17 DEF OpensFile, Goto, Hold
  <1>18. ASSUME NEW c \in Commands, WritesFile(c) PROVE RequestInv'
    BY <1>18 DEF WritesFile, End, Goto, Authorised
  <1>19. ASSUME NEW c \in Commands, ClearsFile(c) PROVE RequestInv'
    BY <1>19 DEF ClearsFile, End
  <1>20. ASSUME NEW c \in Commands, Listens(c) PROVE RequestInv'
    BY <1>20 DEF Listens, Taken, End, Goto, Hold
  <1>21. ASSUME NEW c \in Commands, FlowFails(c) PROVE RequestInv'
    BY <1>21 DEF FlowFails, End
  <1>22. ASSUME NEW c \in Commands, LogsIn(c) PROVE RequestInv'
    BY <1>22 DEF LogsIn, End, Goto
  <1>23. ASSUME NEW c \in Commands, ObtainsBundle(c) PROVE RequestInv'
    BY <1>23 DEF ObtainsBundle, Goto, Hold
  <1>24. ASSUME NEW c \in Commands, Sends(c) PROVE RequestInv'
    BY <1>24 DEF Sends, Answer, Goto, Hold
  <1>25. ASSUME NEW c \in Commands, Receives(c) PROVE RequestInv'
    BY <1>25 DEF Receives, Answer, End
  <1>26. ASSUME NEW c \in Commands, Killed(c) PROVE RequestInv'
    BY <1>26 DEF Killed, End
  <1>27. ASSUME NEW c \in Commands, NEW k \in Kinds[c], Invokes(c, k) PROVE RequestInv'
    BY <1>27 DEF Invokes, Goto
  <1>28. ASSUME NEW c \in Commands, NEW z \in Commands, CallsBack(c, z) PROVE RequestInv'
    BY <1>28 DEF CallsBack, End, Goto, Hold
  <1>29. CASE UNCHANGED vars
    BY <1>29 DEF vars
  <1>30. ASSUME NEW r \in Runs, AgentExchanges(r), UNCHANGED cli PROVE RequestInv'
    BY <1>30 DEF AgentExchanges, Rejects, Replaces
  <1> QED
    BY <1>1, <1>2, <1>3, <1>4, <1>5, <1>6, <1>7, <1>8, <1>9, <1>10, <1>11, <1>12, <1>13,
       <1>14, <1>15, <1>16, <1>17, <1>18, <1>19, <1>20, <1>21, <1>22, <1>23, <1>24, <1>25,
       <1>26, <1>27, <1>28, <1>29, <1>30
    DEF Next, CredentialNext, RunStep, ServerStep, CommandStep

LEMMA StepCredentials ==
    ASSUME TypeOK, IssuedInv, IssuedInv', CredentialInv, RequestInv, [Next]_vars
    PROVE  CredentialInv'
  <1> USE DEF server, requests, cli, provider, stored, runs, malServer, command
  <1>1. ASSUME UNCHANGED <<accepted, forsaken, row, held, from, bundle, request, at, lock>> PROVE CredentialInv'
    BY <1>1 DEF TypeOK, CredentialTypeOK, IssuedInv, CredentialInv, RequestInv, Unstored, Uncommitted, Kept, Succeeded, Unsent,
       Private, Open
  <1>2. CASE Ages /\ UNCHANGED cli
    BY <1>1, <1>2 DEF Ages
  <1>3. CASE ServerCrashes /\ UNCHANGED cli
    BY <1>3 DEF ServerCrashes, Left, Open, Exchanged, TypeOK, CredentialTypeOK, IssuedInv,
       CredentialInv, RequestInv, Unstored, Uncommitted, Kept, Succeeded, Unsent, Private
  <1>4. ASSUME NEW r \in Runs, ReadsCredential(r), UNCHANGED cli PROVE CredentialInv'
    BY <1>4 DEF ReadsCredential, FallsBack, TypeOK, CredentialTypeOK, IssuedInv, CredentialInv,
       RequestInv, Unstored, Uncommitted, Kept, Succeeded, Unsent, Private, Open
  <1>5. ASSUME NEW r \in Runs, Refreshes(r), UNCHANGED cli PROVE CredentialInv'
    BY <1>5 DEF Refreshes, Replaces, TypeOK, CredentialTypeOK, IssuedInv, CredentialInv,
       RequestInv, Unstored, Uncommitted, Kept, Succeeded, Unsent, Private, Open
  <1>6. ASSUME NEW r \in Runs, RefreshFails(r), UNCHANGED cli PROVE CredentialInv'
    BY <1>6 DEF RefreshFails, FallsBack, Rejects, Replaces, TypeOK, CredentialTypeOK, IssuedInv,
       CredentialInv, RequestInv, Unstored, Uncommitted, Kept, Succeeded, Unsent, Private, Open
  <1>7. ASSUME NEW r \in Runs, Upserts(r), UNCHANGED cli PROVE CredentialInv'
    BY <1>7 DEF Upserts, TypeOK, CredentialTypeOK, IssuedInv, CredentialInv, RequestInv, Unstored, Uncommitted, Kept, Succeeded,
       Unsent, Private, Open
  <1>8. ASSUME NEW r \in Runs, RunCommits(r), UNCHANGED cli PROVE CredentialInv'
    BY <1>8 DEF RunCommits, TypeOK, CredentialTypeOK, IssuedInv, CredentialInv, RequestInv,
       Unstored, Uncommitted, Kept, Succeeded, Unsent, Private, Open
  <1>9. ASSUME NEW r \in Runs, RunThrows(r), UNCHANGED cli PROVE CredentialInv'
    BY <1>9 DEF RunThrows, Left, Open, Exchanged, TypeOK, CredentialTypeOK, IssuedInv, CredentialInv,
       RequestInv, Unstored, Uncommitted, Kept, Succeeded, Unsent, Private
  <1>10. ASSUME NEW c \in Commands, RefusesRequest(c), UNCHANGED cli PROVE CredentialInv'
    BY <1>10 DEF RefusesRequest, Answer, TypeOK, CredentialTypeOK, IssuedInv, CredentialInv,
       RequestInv, Unstored, Uncommitted, Kept, Succeeded, Unsent, Private, Open
  <1>11. ASSUME NEW c \in Commands, ListsCredentials(c), UNCHANGED cli PROVE CredentialInv'
    BY <1>11 DEF ListsCredentials, Answer, TypeOK, CredentialTypeOK, IssuedInv, CredentialInv,
       RequestInv, Unstored, Uncommitted, Kept, Succeeded, Unsent, Private, Open
  <1>12. ASSUME NEW c \in Commands, PutsCredential(c), UNCHANGED cli PROVE CredentialInv'
    BY <1>12 DEF PutsCredential, Answer, TypeOK, CredentialTypeOK, IssuedInv, CredentialInv,
       RequestInv, Unstored, Uncommitted, Kept, Succeeded, Unsent, Private, Open
  <1>13. ASSUME NEW c \in Commands, DeletesCredential(c), UNCHANGED cli PROVE CredentialInv'
    BY <1>13 DEF DeletesCredential, Answer, TypeOK, CredentialTypeOK, IssuedInv, CredentialInv,
       RequestInv, Unstored, Uncommitted, Kept, Succeeded, Unsent, Private, Open
  <1>14. CASE LoginExpires
    BY <1>1, <1>14 DEF LoginExpires
  <1>15. ASSUME NEW c \in Commands, ReadsToken(c) PROVE CredentialInv'
    BY <1>1, <1>15 DEF ReadsToken, End, Goto, Authorised
  <1>16. ASSUME NEW c \in Commands, RefreshesLogin(c) PROVE CredentialInv'
    BY <1>1, <1>16 DEF RefreshesLogin, Goto, ReplacesLogin
  <1>17. ASSUME NEW c \in Commands, LoginExpired(c) PROVE CredentialInv'
    BY <1>1, <1>17 DEF LoginExpired, End, ReplacesLogin
  <1>18. ASSUME NEW c \in Commands, OpensFile(c) PROVE CredentialInv'
    BY <1>1, <1>18 DEF OpensFile, Goto, Hold
  <1>19. ASSUME NEW c \in Commands, WritesFile(c) PROVE CredentialInv'
    BY <1>1, <1>19 DEF WritesFile, End, Goto, Authorised
  <1>20. ASSUME NEW c \in Commands, ClearsFile(c) PROVE CredentialInv'
    BY <1>1, <1>20 DEF ClearsFile, End
  <1>21. ASSUME NEW c \in Commands, Listens(c) PROVE CredentialInv'
    BY <1>1, <1>21 DEF Listens, Taken, End, Goto, Hold
  <1>22. ASSUME NEW c \in Commands, FlowFails(c) PROVE CredentialInv'
    BY <1>1, <1>22 DEF FlowFails, End
  <1>23. ASSUME NEW c \in Commands, LogsIn(c) PROVE CredentialInv'
    BY <1>1, <1>23 DEF LogsIn, End, Goto
  <1>24. ASSUME NEW c \in Commands, ObtainsBundle(c) PROVE CredentialInv'
    BY <1>24 DEF ObtainsBundle, Goto, Hold, TypeOK, CredentialTypeOK, IssuedInv, CredentialInv,
       RequestInv, Unstored, Uncommitted, Kept, Succeeded, Unsent, Private, Open
  <1>25. ASSUME NEW c \in Commands, Sends(c) PROVE CredentialInv'
    BY <1>25 DEF Sends, Answer, Goto, Hold, TypeOK, CredentialTypeOK, IssuedInv, CredentialInv,
       RequestInv, Unstored, Uncommitted, Kept, Succeeded, Unsent, Private, Open
  <1>26. ASSUME NEW c \in Commands, Receives(c) PROVE CredentialInv'
    BY <1>26 DEF Receives, Answer, End, TypeOK, CredentialTypeOK, IssuedInv, CredentialInv,
       RequestInv, Unstored, Uncommitted, Kept, Succeeded, Unsent, Private, Open
  <1>27. ASSUME NEW c \in Commands, Killed(c) PROVE CredentialInv'
    BY <1>1, <1>27 DEF Killed, End
  <1>28. ASSUME NEW c \in Commands, NEW k \in Kinds[c], Invokes(c, k) PROVE CredentialInv'
    BY <1>1, <1>28 DEF Invokes, Goto
  <1>29. ASSUME NEW c \in Commands, NEW z \in Commands, CallsBack(c, z) PROVE CredentialInv'
    BY <1>1, <1>29 DEF CallsBack, End, Goto, Hold
  <1>30. CASE UNCHANGED vars
    BY <1>1, <1>30 DEF vars
  <1>31. ASSUME NEW r \in Runs, AgentExchanges(r), UNCHANGED cli PROVE CredentialInv'
    BY <1>31 DEF AgentExchanges, Rejects, Replaces, TypeOK, CredentialTypeOK, IssuedInv,
       CredentialInv, RequestInv, Unstored, Uncommitted, Kept, Succeeded, Unsent, Private, Open
  <1> QED
    BY <1>2, <1>3, <1>4, <1>5, <1>6, <1>7, <1>8, <1>9, <1>10, <1>11, <1>12, <1>13, <1>14,
       <1>15, <1>16, <1>17, <1>18, <1>19, <1>20, <1>21, <1>22, <1>23, <1>24, <1>25, <1>26,
       <1>27, <1>28, <1>29, <1>30, <1>31
    DEF Next, CredentialNext, RunStep, ServerStep, CommandStep

LEMMA StepUsable ==
    ASSUME TypeOK, IssuedInv, CredentialInv, CredentialUsable, [Next]_vars
    PROVE  CredentialUsable'
  <1> USE DEF server, requests, cli, provider, stored, runs, malServer, command
  <1>1. ASSUME UNCHANGED <<accepted, forsaken, row, held, from, at>> PROVE CredentialUsable'
    BY <1>1 DEF TypeOK, CredentialTypeOK, IssuedInv, CredentialInv, CredentialUsable, Unstored, Uncommitted, Kept, Succeeded,
       Unsent, Private, Open
  <1>2. CASE Ages /\ UNCHANGED cli
    BY <1>1, <1>2 DEF Ages
  <1>3. CASE ServerCrashes /\ UNCHANGED cli
    BY <1>3 DEF ServerCrashes, Left, Open, Exchanged, TypeOK, CredentialTypeOK, IssuedInv,
       CredentialInv, CredentialUsable, Unstored, Uncommitted, Kept, Succeeded, Unsent, Private
  <1>4. ASSUME NEW r \in Runs, ReadsCredential(r), UNCHANGED cli PROVE CredentialUsable'
    BY <1>4 DEF ReadsCredential, FallsBack, TypeOK, CredentialTypeOK, IssuedInv, CredentialInv,
       CredentialUsable, Unstored, Uncommitted, Kept, Succeeded, Unsent, Private, Open
  <1>5. ASSUME NEW r \in Runs, Refreshes(r), UNCHANGED cli PROVE CredentialUsable'
    BY <1>5 DEF Refreshes, Replaces, TypeOK, CredentialTypeOK, IssuedInv, CredentialInv,
       CredentialUsable, Unstored, Uncommitted, Kept, Succeeded, Unsent, Private, Open
  <1>6. ASSUME NEW r \in Runs, RefreshFails(r), UNCHANGED cli PROVE CredentialUsable'
    BY <1>6 DEF RefreshFails, FallsBack, Rejects, Replaces, TypeOK, CredentialTypeOK, IssuedInv,
       CredentialInv, CredentialUsable, Unstored, Uncommitted, Kept, Succeeded, Unsent, Private, Open
  <1>7. ASSUME NEW r \in Runs, Upserts(r), UNCHANGED cli PROVE CredentialUsable'
    BY <1>7 DEF Upserts, TypeOK, CredentialTypeOK, IssuedInv, CredentialInv, CredentialUsable,
       Unstored, Uncommitted, Kept, Succeeded, Unsent, Private, Open
  <1>8. ASSUME NEW r \in Runs, RunCommits(r), UNCHANGED cli PROVE CredentialUsable'
    BY <1>8 DEF RunCommits, TypeOK, CredentialTypeOK, IssuedInv, CredentialInv, CredentialUsable,
       Unstored, Uncommitted, Kept, Succeeded, Unsent, Private, Open
  <1>9. ASSUME NEW r \in Runs, RunThrows(r), UNCHANGED cli PROVE CredentialUsable'
    BY <1>9 DEF RunThrows, Left, Open, Exchanged, TypeOK, CredentialTypeOK, IssuedInv, CredentialInv,
       CredentialUsable, Unstored, Uncommitted, Kept, Succeeded, Unsent, Private
  <1>10. ASSUME NEW c \in Commands, RefusesRequest(c), UNCHANGED cli PROVE CredentialUsable'
    BY <1>10 DEF RefusesRequest, Answer, TypeOK, CredentialTypeOK, IssuedInv, CredentialInv,
       CredentialUsable, Unstored, Uncommitted, Kept, Succeeded, Unsent, Private, Open
  <1>11. ASSUME NEW c \in Commands, ListsCredentials(c), UNCHANGED cli PROVE CredentialUsable'
    BY <1>11 DEF ListsCredentials, Answer, TypeOK, CredentialTypeOK, IssuedInv, CredentialInv,
       CredentialUsable, Unstored, Uncommitted, Kept, Succeeded, Unsent, Private, Open
  <1>12. ASSUME NEW c \in Commands, PutsCredential(c), UNCHANGED cli PROVE CredentialUsable'
    BY <1>12 DEF PutsCredential, Answer, TypeOK, CredentialTypeOK, IssuedInv, CredentialInv,
       CredentialUsable, Unstored, Uncommitted, Kept, Succeeded, Unsent, Private, Open
  <1>13. ASSUME NEW c \in Commands, DeletesCredential(c), UNCHANGED cli PROVE CredentialUsable'
    BY <1>13 DEF DeletesCredential, Answer, TypeOK, CredentialTypeOK, IssuedInv, CredentialInv,
       CredentialUsable, Unstored, Uncommitted, Kept, Succeeded, Unsent, Private, Open
  <1>14. CASE LoginExpires
    BY <1>1, <1>14 DEF LoginExpires
  <1>15. ASSUME NEW c \in Commands, ReadsToken(c) PROVE CredentialUsable'
    BY <1>1, <1>15 DEF ReadsToken, End, Goto, Authorised
  <1>16. ASSUME NEW c \in Commands, RefreshesLogin(c) PROVE CredentialUsable'
    BY <1>1, <1>16 DEF RefreshesLogin, Goto, ReplacesLogin
  <1>17. ASSUME NEW c \in Commands, LoginExpired(c) PROVE CredentialUsable'
    BY <1>1, <1>17 DEF LoginExpired, End, ReplacesLogin
  <1>18. ASSUME NEW c \in Commands, OpensFile(c) PROVE CredentialUsable'
    BY <1>1, <1>18 DEF OpensFile, Goto, Hold
  <1>19. ASSUME NEW c \in Commands, WritesFile(c) PROVE CredentialUsable'
    BY <1>1, <1>19 DEF WritesFile, End, Goto, Authorised
  <1>20. ASSUME NEW c \in Commands, ClearsFile(c) PROVE CredentialUsable'
    BY <1>1, <1>20 DEF ClearsFile, End
  <1>21. ASSUME NEW c \in Commands, Listens(c) PROVE CredentialUsable'
    BY <1>1, <1>21 DEF Listens, Taken, End, Goto, Hold
  <1>22. ASSUME NEW c \in Commands, FlowFails(c) PROVE CredentialUsable'
    BY <1>1, <1>22 DEF FlowFails, End
  <1>23. ASSUME NEW c \in Commands, LogsIn(c) PROVE CredentialUsable'
    BY <1>1, <1>23 DEF LogsIn, End, Goto
  <1>24. ASSUME NEW c \in Commands, ObtainsBundle(c) PROVE CredentialUsable'
    BY <1>24 DEF ObtainsBundle, Goto, Hold, TypeOK, CredentialTypeOK, IssuedInv, CredentialInv,
       CredentialUsable, Unstored, Uncommitted, Kept, Succeeded, Unsent, Private, Open
  <1>25. ASSUME NEW c \in Commands, Sends(c) PROVE CredentialUsable'
    BY <1>1, <1>25 DEF Sends, Answer, Goto, Hold
  <1>26. ASSUME NEW c \in Commands, Receives(c) PROVE CredentialUsable'
    BY <1>1, <1>26 DEF Receives, Answer, End
  <1>27. ASSUME NEW c \in Commands, Killed(c) PROVE CredentialUsable'
    BY <1>1, <1>27 DEF Killed, End
  <1>28. ASSUME NEW c \in Commands, NEW k \in Kinds[c], Invokes(c, k) PROVE CredentialUsable'
    BY <1>1, <1>28 DEF Invokes, Goto
  <1>29. ASSUME NEW c \in Commands, NEW z \in Commands, CallsBack(c, z) PROVE CredentialUsable'
    BY <1>1, <1>29 DEF CallsBack, End, Goto, Hold
  <1>30. CASE UNCHANGED vars
    BY <1>1, <1>30 DEF vars
  <1>31. ASSUME NEW r \in Runs, AgentExchanges(r), UNCHANGED cli PROVE CredentialUsable'
    BY <1>31 DEF AgentExchanges, Rejects, Replaces, TypeOK, CredentialTypeOK, IssuedInv,
       CredentialInv, CredentialUsable, Unstored, Uncommitted, Kept, Succeeded, Unsent, Private, Open
  <1> QED
    BY <1>2, <1>3, <1>4, <1>5, <1>6, <1>7, <1>8, <1>9, <1>10, <1>11, <1>12, <1>13, <1>14,
       <1>15, <1>16, <1>17, <1>18, <1>19, <1>20, <1>21, <1>22, <1>23, <1>24, <1>25, <1>26,
       <1>27, <1>28, <1>29, <1>30, <1>31
    DEF Next, CredentialNext, RunStep, ServerStep, CommandStep

LEMMA StepLoginIssued ==
    ASSUME TypeOK, LoginIssuedInv, [Next]_vars
    PROVE  LoginIssuedInv'
  <1> USE DEF server, requests, cli, provider, stored, runs, malServer, command
  <1>1. ASSUME UNCHANGED <<malIssued, malAccepted, malForsaken, file, mal, malFrom>> PROVE LoginIssuedInv'
    BY <1>1 DEF TypeOK, LoginIssuedInv
  <1>2. CASE Ages /\ UNCHANGED cli
    BY <1>1, <1>2 DEF Ages
  <1>3. CASE ServerCrashes /\ UNCHANGED cli
    BY <1>1, <1>3 DEF ServerCrashes, Left, Open, Exchanged
  <1>4. ASSUME NEW r \in Runs, ReadsCredential(r), UNCHANGED cli PROVE LoginIssuedInv'
    BY <1>1, <1>4 DEF ReadsCredential, FallsBack
  <1>5. ASSUME NEW r \in Runs, Refreshes(r), UNCHANGED cli PROVE LoginIssuedInv'
    BY <1>1, <1>5 DEF Refreshes, Replaces
  <1>6. ASSUME NEW r \in Runs, RefreshFails(r), UNCHANGED cli PROVE LoginIssuedInv'
    BY <1>1, <1>6 DEF RefreshFails, FallsBack, Rejects, Replaces
  <1>7. ASSUME NEW r \in Runs, Upserts(r), UNCHANGED cli PROVE LoginIssuedInv'
    BY <1>1, <1>7 DEF Upserts
  <1>8. ASSUME NEW r \in Runs, RunCommits(r), UNCHANGED cli PROVE LoginIssuedInv'
    BY <1>1, <1>8 DEF RunCommits
  <1>9. ASSUME NEW r \in Runs, RunThrows(r), UNCHANGED cli PROVE LoginIssuedInv'
    BY <1>1, <1>9 DEF RunThrows, Left, Open, Exchanged
  <1>10. ASSUME NEW c \in Commands, RefusesRequest(c), UNCHANGED cli PROVE LoginIssuedInv'
    BY <1>1, <1>10 DEF RefusesRequest, Answer
  <1>11. ASSUME NEW c \in Commands, ListsCredentials(c), UNCHANGED cli PROVE LoginIssuedInv'
    BY <1>1, <1>11 DEF ListsCredentials, Answer
  <1>12. ASSUME NEW c \in Commands, PutsCredential(c), UNCHANGED cli PROVE LoginIssuedInv'
    BY <1>1, <1>12 DEF PutsCredential, Answer
  <1>13. ASSUME NEW c \in Commands, DeletesCredential(c), UNCHANGED cli PROVE LoginIssuedInv'
    BY <1>1, <1>13 DEF DeletesCredential, Answer
  <1>14. CASE LoginExpires
    BY <1>1, <1>14 DEF LoginExpires
  <1>15. ASSUME NEW c \in Commands, ReadsToken(c) PROVE LoginIssuedInv'
    BY <1>15 DEF ReadsToken, End, Goto, Authorised, TypeOK, LoginIssuedInv
  <1>16. ASSUME NEW c \in Commands, RefreshesLogin(c) PROVE LoginIssuedInv'
    <2>1. malIssued' \in 1..malIssued' /\ 1..malIssued \subseteq 1..malIssued'
      BY <1>16, NextToken DEF RefreshesLogin, ReplacesLogin, TypeOK
    <2>2. malAccepted' \subseteq 1..malIssued' /\ malIssued' = malIssued + 1
      BY <1>16, <2>1 DEF RefreshesLogin, ReplacesLogin, LoginIssuedInv
    <2> QED
      BY <1>16, <2>1, <2>2 DEF RefreshesLogin, LoginIssuedInv
  <1>17. ASSUME NEW c \in Commands, LoginExpired(c) PROVE LoginIssuedInv'
    <2>1. 1..malIssued \subseteq 1..malIssued'
      BY <1>17, NextToken DEF LoginExpired, ReplacesLogin, TypeOK
    <2>2. malAccepted' \cup malForsaken' \subseteq 1..malIssued'
      <3>1. CASE malIssued' = malIssued /\ malAccepted' \cup malForsaken' \subseteq malAccepted \cup malForsaken
        BY <3>1 DEF LoginIssuedInv
      <3>2. CASE ReplacesLogin(mal[c]) /\ malForsaken' = malForsaken \cup {mal[c]}
        <4>1. malAccepted' \subseteq 1..malIssued'
          <5>1. malIssued' \in 1..malIssued' /\ malIssued' = malIssued + 1
            BY <3>2, NextToken DEF ReplacesLogin, TypeOK
          <5> QED
            BY <3>2, <2>1, <5>1 DEF ReplacesLogin, LoginIssuedInv
        <4>2. malForsaken' \subseteq 1..malIssued'
          <5>1. mal[c] \in 1..malIssued
            BY <3>2 DEF ReplacesLogin, LoginIssuedInv
          <5> QED
            BY <3>2, <2>1, <5>1 DEF LoginIssuedInv
        <4> QED
          BY <4>1, <4>2
      <3> QED
        BY <1>17, <3>1, <3>2 DEF LoginExpired, TypeOK
    <2> QED
      BY <1>17, <2>1, <2>2 DEF LoginExpired, End, LoginIssuedInv
  <1>18. ASSUME NEW c \in Commands, OpensFile(c) PROVE LoginIssuedInv'
    BY <1>18 DEF OpensFile, Goto, Hold, TypeOK, LoginIssuedInv
  <1>19. ASSUME NEW c \in Commands, WritesFile(c) PROVE LoginIssuedInv'
    BY <1>19 DEF WritesFile, End, Goto, Authorised, TypeOK, LoginIssuedInv
  <1>20. ASSUME NEW c \in Commands, ClearsFile(c) PROVE LoginIssuedInv'
    BY <1>20 DEF ClearsFile, End, TypeOK, LoginIssuedInv
  <1>21. ASSUME NEW c \in Commands, Listens(c) PROVE LoginIssuedInv'
    BY <1>21 DEF Listens, Taken, End, Goto, Hold, TypeOK, LoginIssuedInv
  <1>22. ASSUME NEW c \in Commands, FlowFails(c) PROVE LoginIssuedInv'
    BY <1>22 DEF FlowFails, End, TypeOK, LoginIssuedInv
  <1>23. ASSUME NEW c \in Commands, LogsIn(c) PROVE LoginIssuedInv'
    BY <1>23 DEF LogsIn, End, Goto, TypeOK, LoginIssuedInv
  <1>24. ASSUME NEW c \in Commands, ObtainsBundle(c) PROVE LoginIssuedInv'
    BY <1>24 DEF ObtainsBundle, Goto, Hold, TypeOK, LoginIssuedInv
  <1>25. ASSUME NEW c \in Commands, Sends(c) PROVE LoginIssuedInv'
    BY <1>25 DEF Sends, Answer, Goto, Hold, TypeOK, LoginIssuedInv
  <1>26. ASSUME NEW c \in Commands, Receives(c) PROVE LoginIssuedInv'
    BY <1>26 DEF Receives, Answer, End, TypeOK, LoginIssuedInv
  <1>27. ASSUME NEW c \in Commands, Killed(c) PROVE LoginIssuedInv'
    BY <1>27 DEF Killed, End, TypeOK, LoginIssuedInv
  <1>28. ASSUME NEW c \in Commands, NEW k \in Kinds[c], Invokes(c, k) PROVE LoginIssuedInv'
    BY <1>1, <1>28 DEF Invokes, Goto
  <1>29. ASSUME NEW c \in Commands, NEW z \in Commands, CallsBack(c, z) PROVE LoginIssuedInv'
    BY <1>29 DEF CallsBack, End, Goto, Hold, TypeOK, LoginIssuedInv
  <1>30. CASE UNCHANGED vars
    BY <1>1, <1>30 DEF vars
  <1>31. ASSUME NEW r \in Runs, AgentExchanges(r), UNCHANGED cli PROVE LoginIssuedInv'
    BY <1>1, <1>31 DEF AgentExchanges, Rejects, Replaces
  <1> QED
    BY <1>2, <1>3, <1>4, <1>5, <1>6, <1>7, <1>8, <1>9, <1>10, <1>11, <1>12, <1>13, <1>14,
       <1>15, <1>16, <1>17, <1>18, <1>19, <1>20, <1>21, <1>22, <1>23, <1>24, <1>25, <1>26,
       <1>27, <1>28, <1>29, <1>30, <1>31
    DEF Next, CredentialNext, RunStep, ServerStep, CommandStep

LEMMA StepLogins ==
    ASSUME TypeOK, LoginIssuedInv, LoginIssuedInv', LoginInv, [Next]_vars
    PROVE  LoginInv'
  <1> USE DEF server, requests, cli, provider, stored, runs, malServer, command
  <1>1. ASSUME UNCHANGED <<malAccepted, malForsaken, file, mal, pc>> PROVE LoginInv'
    BY <1>1 DEF TypeOK, LoginIssuedInv, LoginInv, Unwritten
  <1>2. CASE Ages /\ UNCHANGED cli
    BY <1>1, <1>2 DEF Ages
  <1>3. CASE ServerCrashes /\ UNCHANGED cli
    BY <1>1, <1>3 DEF ServerCrashes, Left, Open, Exchanged
  <1>4. ASSUME NEW r \in Runs, ReadsCredential(r), UNCHANGED cli PROVE LoginInv'
    BY <1>1, <1>4 DEF ReadsCredential, FallsBack
  <1>5. ASSUME NEW r \in Runs, Refreshes(r), UNCHANGED cli PROVE LoginInv'
    BY <1>1, <1>5 DEF Refreshes, Replaces
  <1>6. ASSUME NEW r \in Runs, RefreshFails(r), UNCHANGED cli PROVE LoginInv'
    BY <1>1, <1>6 DEF RefreshFails, FallsBack, Rejects, Replaces
  <1>7. ASSUME NEW r \in Runs, Upserts(r), UNCHANGED cli PROVE LoginInv'
    BY <1>1, <1>7 DEF Upserts
  <1>8. ASSUME NEW r \in Runs, RunCommits(r), UNCHANGED cli PROVE LoginInv'
    BY <1>1, <1>8 DEF RunCommits
  <1>9. ASSUME NEW r \in Runs, RunThrows(r), UNCHANGED cli PROVE LoginInv'
    BY <1>1, <1>9 DEF RunThrows, Left, Open, Exchanged
  <1>10. ASSUME NEW c \in Commands, RefusesRequest(c), UNCHANGED cli PROVE LoginInv'
    BY <1>1, <1>10 DEF RefusesRequest, Answer
  <1>11. ASSUME NEW c \in Commands, ListsCredentials(c), UNCHANGED cli PROVE LoginInv'
    BY <1>1, <1>11 DEF ListsCredentials, Answer
  <1>12. ASSUME NEW c \in Commands, PutsCredential(c), UNCHANGED cli PROVE LoginInv'
    BY <1>1, <1>12 DEF PutsCredential, Answer
  <1>13. ASSUME NEW c \in Commands, DeletesCredential(c), UNCHANGED cli PROVE LoginInv'
    BY <1>1, <1>13 DEF DeletesCredential, Answer
  <1>14. CASE LoginExpires
    BY <1>1, <1>14 DEF LoginExpires
  <1>15. ASSUME NEW c \in Commands, ReadsToken(c) PROVE LoginInv'
    BY <1>15 DEF ReadsToken, End, Goto, Authorised, TypeOK, LoginIssuedInv, LoginInv, Unwritten
  <1>16. ASSUME NEW c \in Commands, RefreshesLogin(c) PROVE LoginInv'
    BY <1>16 DEF RefreshesLogin, Goto, ReplacesLogin, TypeOK, LoginIssuedInv, LoginInv, Unwritten
  <1>17. ASSUME NEW c \in Commands, LoginExpired(c) PROVE LoginInv'
    BY <1>17 DEF LoginExpired, End, ReplacesLogin, TypeOK, LoginIssuedInv, LoginInv, Unwritten
  <1>18. ASSUME NEW c \in Commands, OpensFile(c) PROVE LoginInv'
    BY <1>18 DEF OpensFile, Goto, Hold, TypeOK, LoginIssuedInv, LoginInv, Unwritten
  <1>19. ASSUME NEW c \in Commands, WritesFile(c) PROVE LoginInv'
    BY <1>19 DEF WritesFile, End, Goto, Authorised, TypeOK, LoginIssuedInv, LoginInv, Unwritten
  <1>20. ASSUME NEW c \in Commands, ClearsFile(c) PROVE LoginInv'
    BY <1>20 DEF ClearsFile, End, TypeOK, LoginIssuedInv, LoginInv, Unwritten
  <1>21. ASSUME NEW c \in Commands, Listens(c) PROVE LoginInv'
    BY <1>21 DEF Listens, Taken, End, Goto, Hold, TypeOK, LoginIssuedInv, LoginInv, Unwritten
  <1>22. ASSUME NEW c \in Commands, FlowFails(c) PROVE LoginInv'
    BY <1>22 DEF FlowFails, End, TypeOK, LoginIssuedInv, LoginInv, Unwritten
  <1>23. ASSUME NEW c \in Commands, LogsIn(c) PROVE LoginInv'
    BY <1>23 DEF LogsIn, End, Goto, TypeOK, LoginIssuedInv, LoginInv, Unwritten
  <1>24. ASSUME NEW c \in Commands, ObtainsBundle(c) PROVE LoginInv'
    BY <1>24 DEF ObtainsBundle, Goto, Hold, TypeOK, LoginIssuedInv, LoginInv, Unwritten
  <1>25. ASSUME NEW c \in Commands, Sends(c) PROVE LoginInv'
    BY <1>25 DEF Sends, Answer, Goto, Hold, TypeOK, LoginIssuedInv, LoginInv, Unwritten
  <1>26. ASSUME NEW c \in Commands, Receives(c) PROVE LoginInv'
    BY <1>26 DEF Receives, Answer, End, TypeOK, LoginIssuedInv, LoginInv, Unwritten
  <1>27. ASSUME NEW c \in Commands, Killed(c) PROVE LoginInv'
    BY <1>27 DEF Killed, End, TypeOK, LoginIssuedInv, LoginInv, Unwritten
  <1>28. ASSUME NEW c \in Commands, NEW k \in Kinds[c], Invokes(c, k) PROVE LoginInv'
    BY <1>28 DEF Invokes, Goto, TypeOK, LoginIssuedInv, LoginInv, Unwritten
  <1>29. ASSUME NEW c \in Commands, NEW z \in Commands, CallsBack(c, z) PROVE LoginInv'
    BY <1>29 DEF CallsBack, End, Goto, Hold, TypeOK, LoginIssuedInv, LoginInv, Unwritten
  <1>30. CASE UNCHANGED vars
    BY <1>1, <1>30 DEF vars
  <1>31. ASSUME NEW r \in Runs, AgentExchanges(r), UNCHANGED cli PROVE LoginInv'
    BY <1>1, <1>31 DEF AgentExchanges, Rejects, Replaces
  <1> QED
    BY <1>2, <1>3, <1>4, <1>5, <1>6, <1>7, <1>8, <1>9, <1>10, <1>11, <1>12, <1>13, <1>14,
       <1>15, <1>16, <1>17, <1>18, <1>19, <1>20, <1>21, <1>22, <1>23, <1>24, <1>25, <1>26,
       <1>27, <1>28, <1>29, <1>30, <1>31
    DEF Next, CredentialNext, RunStep, ServerStep, CommandStep

LEMMA StepLoginUsable ==
    ASSUME TypeOK, LoginIssuedInv, LoginInv, LoginUsable, [Next]_vars
    PROVE  LoginUsable'
  <1> USE DEF server, requests, cli, provider, stored, runs, malServer, command
  <1>1. ASSUME UNCHANGED <<malAccepted, malForsaken, file, malFrom, pc, spoilt>> PROVE LoginUsable'
    BY <1>1 DEF TypeOK, LoginIssuedInv, LoginInv, Unwritten, LoginUsable
  <1>2. CASE Ages /\ UNCHANGED cli
    BY <1>1, <1>2 DEF Ages
  <1>3. CASE ServerCrashes /\ UNCHANGED cli
    BY <1>1, <1>3 DEF ServerCrashes, Left, Open, Exchanged
  <1>4. ASSUME NEW r \in Runs, ReadsCredential(r), UNCHANGED cli PROVE LoginUsable'
    BY <1>1, <1>4 DEF ReadsCredential, FallsBack
  <1>5. ASSUME NEW r \in Runs, Refreshes(r), UNCHANGED cli PROVE LoginUsable'
    BY <1>1, <1>5 DEF Refreshes, Replaces
  <1>6. ASSUME NEW r \in Runs, RefreshFails(r), UNCHANGED cli PROVE LoginUsable'
    BY <1>1, <1>6 DEF RefreshFails, FallsBack, Rejects, Replaces
  <1>7. ASSUME NEW r \in Runs, Upserts(r), UNCHANGED cli PROVE LoginUsable'
    BY <1>1, <1>7 DEF Upserts
  <1>8. ASSUME NEW r \in Runs, RunCommits(r), UNCHANGED cli PROVE LoginUsable'
    BY <1>1, <1>8 DEF RunCommits
  <1>9. ASSUME NEW r \in Runs, RunThrows(r), UNCHANGED cli PROVE LoginUsable'
    BY <1>1, <1>9 DEF RunThrows, Left, Open, Exchanged
  <1>10. ASSUME NEW c \in Commands, RefusesRequest(c), UNCHANGED cli PROVE LoginUsable'
    BY <1>1, <1>10 DEF RefusesRequest, Answer
  <1>11. ASSUME NEW c \in Commands, ListsCredentials(c), UNCHANGED cli PROVE LoginUsable'
    BY <1>1, <1>11 DEF ListsCredentials, Answer
  <1>12. ASSUME NEW c \in Commands, PutsCredential(c), UNCHANGED cli PROVE LoginUsable'
    BY <1>1, <1>12 DEF PutsCredential, Answer
  <1>13. ASSUME NEW c \in Commands, DeletesCredential(c), UNCHANGED cli PROVE LoginUsable'
    BY <1>1, <1>13 DEF DeletesCredential, Answer
  <1>14. CASE LoginExpires
    BY <1>1, <1>14 DEF LoginExpires
  <1>15. ASSUME NEW c \in Commands, ReadsToken(c) PROVE LoginUsable'
    BY <1>15 DEF ReadsToken, End, Goto, Authorised, TypeOK, LoginIssuedInv, LoginInv, Unwritten,
       LoginUsable
  <1>16. ASSUME NEW c \in Commands, RefreshesLogin(c) PROVE LoginUsable'
    BY <1>16 DEF RefreshesLogin, Goto, ReplacesLogin, TypeOK, LoginIssuedInv, LoginInv, Unwritten,
       LoginUsable
  <1>17. ASSUME NEW c \in Commands, LoginExpired(c) PROVE LoginUsable'
    BY <1>17 DEF LoginExpired, End, ReplacesLogin, TypeOK, LoginIssuedInv, LoginInv, Unwritten,
       LoginUsable
  <1>18. ASSUME NEW c \in Commands, OpensFile(c) PROVE LoginUsable'
    BY <1>18 DEF OpensFile, Goto, Hold, TypeOK, LoginIssuedInv, LoginInv, Unwritten, LoginUsable
  <1>19. ASSUME NEW c \in Commands, WritesFile(c) PROVE LoginUsable'
    BY <1>19 DEF WritesFile, End, Goto, Authorised, TypeOK, LoginIssuedInv, LoginInv, Unwritten,
       LoginUsable
  <1>20. ASSUME NEW c \in Commands, ClearsFile(c) PROVE LoginUsable'
    BY <1>20 DEF ClearsFile, End, TypeOK, LoginIssuedInv, LoginInv, Unwritten, LoginUsable
  <1>21. ASSUME NEW c \in Commands, Listens(c) PROVE LoginUsable'
    BY <1>21 DEF Listens, Taken, End, Goto, Hold, TypeOK, LoginIssuedInv, LoginInv, Unwritten,
       LoginUsable
  <1>22. ASSUME NEW c \in Commands, FlowFails(c) PROVE LoginUsable'
    BY <1>22 DEF FlowFails, End, TypeOK, LoginIssuedInv, LoginInv, Unwritten, LoginUsable
  <1>23. ASSUME NEW c \in Commands, LogsIn(c) PROVE LoginUsable'
    BY <1>23 DEF LogsIn, End, Goto, TypeOK, LoginIssuedInv, LoginInv, Unwritten, LoginUsable
  <1>24. ASSUME NEW c \in Commands, ObtainsBundle(c) PROVE LoginUsable'
    BY <1>24 DEF ObtainsBundle, Goto, Hold, TypeOK, LoginIssuedInv, LoginInv, Unwritten, LoginUsable
  <1>25. ASSUME NEW c \in Commands, Sends(c) PROVE LoginUsable'
    BY <1>25 DEF Sends, Answer, Goto, Hold, TypeOK, LoginIssuedInv, LoginInv, Unwritten, LoginUsable
  <1>26. ASSUME NEW c \in Commands, Receives(c) PROVE LoginUsable'
    BY <1>26 DEF Receives, Answer, End, TypeOK, LoginIssuedInv, LoginInv, Unwritten, LoginUsable
  <1>27. ASSUME NEW c \in Commands, Killed(c) PROVE LoginUsable'
    BY <1>27 DEF Killed, End, TypeOK, LoginIssuedInv, LoginInv, Unwritten, LoginUsable
  <1>28. ASSUME NEW c \in Commands, NEW k \in Kinds[c], Invokes(c, k) PROVE LoginUsable'
    BY <1>28 DEF Invokes, Goto, TypeOK, LoginIssuedInv, LoginInv, Unwritten, LoginUsable
  <1>29. ASSUME NEW c \in Commands, NEW z \in Commands, CallsBack(c, z) PROVE LoginUsable'
    BY <1>29 DEF CallsBack, End, Goto, Hold, TypeOK, LoginIssuedInv, LoginInv, Unwritten,
       LoginUsable
  <1>30. CASE UNCHANGED vars
    BY <1>1, <1>30 DEF vars
  <1>31. ASSUME NEW r \in Runs, AgentExchanges(r), UNCHANGED cli PROVE LoginUsable'
    BY <1>1, <1>31 DEF AgentExchanges, Rejects, Replaces
  <1> QED
    BY <1>2, <1>3, <1>4, <1>5, <1>6, <1>7, <1>8, <1>9, <1>10, <1>11, <1>12, <1>13, <1>14,
       <1>15, <1>16, <1>17, <1>18, <1>19, <1>20, <1>21, <1>22, <1>23, <1>24, <1>25, <1>26,
       <1>27, <1>28, <1>29, <1>30, <1>31
    DEF Next, CredentialNext, RunStep, ServerStep, CommandStep

\* What Spec keeps; the two parts do not need each other, but for the types.
MalCliInv ==
    /\ TypeOK /\ RequestInv
    /\ IssuedInv /\ CredentialInv /\ CredentialUsable
    /\ LoginIssuedInv /\ LoginInv /\ LoginUsable

LEMMA InitCommands == Init => MalCliInv
  <1> SUFFICES ASSUME Init PROVE MalCliInv
    OBVIOUS
  <1> USE DEF Init, CredentialInit
  <1>1. TypeOK
    <2>1. CredentialTypeOK
      <3>1. 1 \in Nat /\ {1} \in SUBSET Nat
        OBVIOUS
      <3> QED
        BY <3>1 DEF CredentialTypeOK, Open
    <2>2. {1} \in SUBSET Nat
      OBVIOUS
    <2> QED
      BY <2>1, <2>2 DEF TypeOK, AnyKind
  <1>2. RequestInv
    BY DEF RequestInv
  <1>3. IssuedInv
    BY DEF IssuedInv
  <1>4. CredentialInv /\ CredentialUsable
    BY DEF CredentialInv, CredentialUsable, Uncommitted, Unstored, Kept, Unsent, Private
  <1>5. LoginIssuedInv
    BY DEF LoginIssuedInv
  <1>6. LoginInv /\ LoginUsable
    BY DEF LoginInv, LoginUsable, Unwritten
  <1> QED
    BY <1>1, <1>2, <1>3, <1>4, <1>5, <1>6 DEF MalCliInv

LEMMA Invariance == Spec => []MalCliInv
  <1>1. MalCliInv /\ [Next]_vars => MalCliInv'
    BY StepTypes, StepRequests, StepIssued, StepCredentials, StepUsable, StepLoginIssued,
       StepLogins, StepLoginUsable DEF MalCliInv
  <1> QED
    BY InitCommands, <1>1, PTL DEF Spec

\* The types of both modules; only a run in its sandbox has an uncommitted row.
THEOREM TypeCorrect == Spec => []TypeOK
  <1>1. MalCliInv => TypeOK
    BY DEF MalCliInv
  <1> QED
    BY Invariance, <1>1, PTL

\* The stored Codex credential is one the provider accepts, or its successor is with a run that has
\* not committed, was lost, or was overwritten by a run whose refresh brought no new token
\* (OpenAiCodexProvider.ts:110): whatever runs refresh (HarnessAuthService), their agents exchange in
\* the sandbox and commands store or delete (me-handlers), also when runs are rolled back, the
\* server dies, responses are lost and commands are killed.
THEOREM CredentialKept == Spec => []CredentialUsable
  <1>1. MalCliInv => CredentialUsable
    BY DEF MalCliInv
  <1> QED
    BY Invariance, <1>1, PTL

\* The file of `mal` holds a login that MAL accepts, but for a successor that a command has not
\* written or that was lost; and it is whole but for writers that are at it, met or were cut off
\* (auth-file.ts writeAuthFile).
THEOREM LoginKept == Spec => []LoginUsable
  <1>1. MalCliInv => LoginUsable
    BY DEF MalCliInv
  <1> QED
    BY Invariance, <1>1, PTL
=============================================================================
