------------------------------- MODULE DaemonToken -------------------------------
(***************************************************************************)
(* The token file of src/daemon.rs: a daemon binds its address, draws a    *)
(* token and installs it as daemon-<port>.token, where local tools look    *)
(* for it, by way of a temporary file.  Daemons are processes that are     *)
(* given the same port; each can fail or be killed at any step, and the     *)
(* system then frees its address.                                          *)
(***************************************************************************)
EXTENDS Naturals, FiniteSets

CONSTANTS
  Daemons,
  Addresses,      \* hosts that the port can be bound on
  NoToken, Link,  \* no file, and a symbolic link in its place
  MaxStarts       \* bound: starts of daemons

ASSUME TokenAssumption ==
  /\ MaxStarts \in Nat
  /\ NoToken \notin Nat /\ Link \notin Nat /\ NoToken # Link

Nobody == {}

VARIABLES
  address,     \* the address that a daemon is started with
  listener,    \* per address the daemon that holds it, as a set
  stage,       \* where a daemon is
  token,       \* the token that it drew, numbered
  draft,       \* what its temporary file holds; each has a name of its own
  tokenFile,
  starts,      \* counter of tokens, and for the bound
  bound        \* history: addresses that were bound

tokenVars == <<address, listener, stage, token, draft, tokenFile, starts, bound>>

Half == 0    \* a file that is not written to its end

TokenInit ==
  /\ address \in [Daemons -> Addresses]
  /\ listener = [a \in Addresses |-> Nobody]
  /\ stage = [d \in Daemons |-> "down"]
  /\ token = [d \in Daemons |-> NoToken]
  /\ draft = [d \in Daemons |-> NoToken]
  /\ tokenFile \in {NoToken, Link}
  /\ starts = 0 /\ bound = {}

Advance(d, from, to) ==
  /\ stage[d] = from
  /\ stage' = [stage EXCEPT ![d] = to]
  /\ UNCHANGED <<address, starts>>

\* mutant: the token is issued before the address is bound
BindLate(d) ==
  /\ stage[d] = "down" /\ starts < MaxStarts
  /\ starts' = starts + 1
  /\ token' = [token EXCEPT ![d] = starts']
  /\ stage' = [stage EXCEPT ![d] = "bound"]
  /\ bound' = bound \cup {address[d]}
  /\ UNCHANGED <<address, listener, draft, tokenFile>>

\* serve: the listener and issue_daemon_token's draw.  A daemon whose address is
\* taken ends here.
Bind(d) ==
  /\ stage[d] = "down" /\ starts < MaxStarts
  /\ listener[address[d]] = Nobody
  /\ listener' = [listener EXCEPT ![address[d]] = {d}]
  /\ starts' = starts + 1
  /\ token' = [token EXCEPT ![d] = starts']
  /\ stage' = [stage EXCEPT ![d] = "bound"]
  /\ bound' = bound \cup {address[d]}
  /\ UNCHANGED <<address, draft, tokenFile>>

Create(d) ==
  /\ Advance(d, "bound", "created")
  /\ draft' = [draft EXCEPT ![d] = Half]
  /\ UNCHANGED <<listener, token, tokenFile, bound>>

\* writeln! and sync_all
WriteOut(d) ==
  /\ Advance(d, "created", "written")
  /\ draft' = [draft EXCEPT ![d] = token[d]]
  /\ UNCHANGED <<listener, token, tokenFile, bound>>

\* A symbolic link is refused (Stop); what else is there is removed.
RemoveOld(d) ==
  /\ tokenFile # Link
  /\ Advance(d, "written", "removed")
  /\ tokenFile' = NoToken
  /\ UNCHANGED <<listener, token, draft, bound>>

Install(d) ==
  /\ Advance(d, "removed", "serving")
  /\ tokenFile' = draft[d]
  /\ draft' = [draft EXCEPT ![d] = NoToken]
  /\ UNCHANGED <<listener, token, bound>>

\* An error of any step, a signal or a kill.  The token file stays; of the
\* temporary files of killed daemons the model keeps the last.
Stop(d) ==
  /\ stage[d] # "down"
  /\ stage' = [stage EXCEPT ![d] = "down"]
  /\ listener' = [a \in Addresses |-> listener[a] \ {d}]
  /\ UNCHANGED <<address, token, draft, tokenFile, starts, bound>>

TokenNext ==
  \E d \in Daemons :
    Bind(d) \/ Create(d) \/ WriteOut(d) \/ RemoveOld(d) \/ Install(d) \/ Stop(d)

TokenSpec == TokenInit /\ [][TokenNext]_tokenVars

(***************************************************************************)
(* The token file is missing, a link that was there before, or holds a     *)
(* whole token: what a crash interrupts is never seen under its name.      *)
(***************************************************************************)
TokenFileWhole == tokenFile \in {NoToken, Link} \cup 1..starts

(***************************************************************************)
(* A daemon that serves is the one whose token is in the file, whatever    *)
(* daemons failed to bind, failed later or were killed before, as long as  *)
(* all of them are given the same address.  (Daemons on two addresses      *)
(* share the file of their port.)                                          *)
(***************************************************************************)
ServedTokenIsFiled ==
  \A d \in Daemons :
    stage[d] = "serving" /\ Cardinality(bound) = 1 => tokenFile = token[d]

(***************************************************************************)
(* The token file (prepare_token) is never torn and holds the token of the *)
(* daemon that serves.                                                     *)
(***************************************************************************)
TokenSound ==
  /\ TokenFileWhole
  /\ ServedTokenIsFiled
==================================================================================
