--------------------------- MODULE SignerAttachment ---------------------------
(***************************************************************************)
(* Which signer speaks for a node: attaching external signers, binding a   *)
(* native one as message signer, BIP-322 proofs and their race with        *)
(* terminal shutdown (src/uniffi_api/mod.rs and NodeHandle::shutdown of    *)
(* the native overlay).                                                    *)
(*                                                                         *)
(* An attachment is replaced without regard to the unlocked wallet: its    *)
(* bootstrap runs without any lock, and a native signer is published first *)
(* and bound as message signer in a second critical section.               *)
(***************************************************************************)

CONSTANTS
  Caller,    \* host threads
  Native,    \* in-process signers, which can sign messages
  Identity,  \* wallet identities: node id and descriptor accounts
  Key,       \* the identity each native signer holds
  None       \* no attachment, no signer, no wallet, nobody

Attachment == [id : Identity, message : Native \cup {None}]
Job == [signer : Native \cup {None}, id : Identity]

ASSUME AttachmentAssumption ==
  /\ Key \in [Native -> Identity]
  /\ None \notin Native \cup Identity \cup Caller
  /\ None \notin Attachment \cup Job

VARIABLES
  attached,   \* the attachment: its bootstrap identity and message signer
  mutex,      \* who holds the attachment's mutex beyond one step
  cancelled,  \* the cancel token
  terminal,   \* history: a shutdown has marked the node terminal
  stopped,    \* history: a shutdown has returned
  wallet,     \* the identity of the unlocked wallet
  guard,      \* who holds the unlocked state's mutex beyond one step
  source,     \* the identity in key_source.json
  live,       \* the native signers nobody has revoked
  pc,         \* where each caller is
  job,        \* what it attaches: a native signer or a host, and an identity
  proofs      \* history: the proofs handed out, with the wallet asked for

attachment == <<attached, mutex>>
node == <<cancelled, terminal, stopped>>
identity == <<wallet, guard, source>>
calls == <<pc, job>>
vars == <<attachment, node, identity, live, calls, proofs>>

TypeOK ==
  /\ attached \in Attachment \cup {None}
  /\ mutex \in Caller \cup {None}
  /\ cancelled \in BOOLEAN /\ terminal \in BOOLEAN /\ stopped \in BOOLEAN
  /\ wallet \in Identity \cup {None}
  /\ guard \in Caller \cup {None}
  /\ source \in Identity \cup {None}
  /\ live \subseteq Native
  /\ pc \in [Caller -> {"idle", "boot", "publish", "bind", "lookup", "sign", "stop"}]
  /\ job \in [Caller -> Job \cup {None}]
  /\ \A c \in Caller :
       /\ pc[c] \in {"boot", "publish", "bind"} => job[c] # None
       /\ pc[c] = "bind" => job[c].signer # None
  /\ proofs \subseteq [wallet : Identity, key : Identity]

Init ==
  /\ attached = None /\ mutex = None
  /\ cancelled = FALSE /\ terminal = FALSE /\ stopped = FALSE
  /\ wallet = None /\ guard = None
  /\ source \in Identity \cup {None}
  /\ live = Native
  /\ pc = [c \in Caller |-> "idle"]
  /\ job = [c \in Caller |-> None]
  /\ proofs = {}

Goto(c, place) == pc' = [pc EXCEPT ![c] = place] /\ UNCHANGED job

Return(c) ==
  /\ pc' = [pc EXCEPT ![c] = "idle"]
  /\ job' = [job EXCEPT ![c] = None]

(***************************************************************************)
(* Attaching a signer.                                                     *)
(***************************************************************************)

\* attach_native_external_signer reads the signer's identity, any other host
\* comes with an expected one; a node that is shutting down refuses both.
Attach(c, signer, id) ==
  /\ pc[c] = "idle" /\ ~cancelled
  /\ signer # None => signer \in live /\ id = Key[signer]
  /\ pc' = [pc EXCEPT ![c] = "boot"]
  /\ job' = [job EXCEPT ![c] = [signer |-> signer, id |-> id]]
  /\ UNCHANGED <<attachment, node, identity, live, proofs>>

\* The bootstrap calls the host and compares what it says with the expected
\* identity; any of it may fail.
Bootstrapped(c) ==
  /\ pc[c] = "boot"
  /\ \/ /\ job[c].signer # None => job[c].signer \in live
        /\ Goto(c, "publish")
     \/ Return(c)
  /\ UNCHANGED <<attachment, node, identity, live, proofs>>

\* Mutation: the token is not looked at again under the mutex.
Publish_NoRecheck(c) ==
  /\ pc[c] = "publish" /\ mutex = None
  /\ attached' = [id |-> job[c].id, message |-> None]
  /\ IF job[c].signer = None THEN Return(c) ELSE Goto(c, "bind")
  /\ UNCHANGED <<mutex, node, identity, live, proofs>>

\* Mutation: every host is bound as message signer.
Publish_AlwaysBinds(c) ==
  /\ pc[c] = "publish" /\ mutex = None
  /\ IF cancelled
       THEN Return(c) /\ UNCHANGED attached
       ELSE /\ attached' = [id |-> job[c].id, message |-> None]
            /\ Goto(c, "bind")
  /\ UNCHANGED <<mutex, node, identity, live, proofs>>

\* Publication under the mutex that terminal shutdown marks itself under.
Publish(c) ==
  /\ pc[c] = "publish" /\ mutex = None
  /\ IF cancelled
       THEN Return(c) /\ UNCHANGED attached
       ELSE /\ attached' = [id |-> job[c].id, message |-> None]
            /\ IF job[c].signer = None THEN Return(c) ELSE Goto(c, "bind")
  /\ UNCHANGED <<mutex, node, identity, live, proofs>>

\* Mutation: whatever is attached by now gets this message signer.
Bind_NoMatch(c) ==
  /\ pc[c] = "bind" /\ mutex = None
  /\ IF cancelled \/ attached = None
       THEN UNCHANGED attached
       ELSE attached' = [attached EXCEPT !.message = job[c].signer]
  /\ Return(c)
  /\ UNCHANGED <<mutex, node, identity, live, proofs>>

\* A native signer becomes message signer of whatever is attached by now, if
\* anything is and has its identity; a revoked one no longer tells its own.
Bind(c) ==
  /\ pc[c] = "bind" /\ mutex = None
  /\ IF /\ ~cancelled /\ attached # None
        /\ job[c].signer \in live /\ attached.id = Key[job[c].signer]
       THEN attached' = [attached EXCEPT !.message = job[c].signer]
       ELSE UNCHANGED attached
  /\ Return(c)
  /\ UNCHANGED <<mutex, node, identity, live, proofs>>

\* detach_external_signer, at any time nobody signs.
Detach ==
  /\ mutex = None
  /\ attached' = None
  /\ UNCHANGED <<mutex, node, identity, live, calls, proofs>>

(***************************************************************************)
(* Proofs: sign_message_bip322, and get_message_signing_address, which     *)
(* takes the same way.                                                     *)
(***************************************************************************)

\* check_unlocked, whose guard is kept until the call returns.
BeginSign(c) ==
  /\ pc[c] = "idle" /\ ~cancelled
  /\ guard = None /\ wallet # None
  /\ guard' = c
  /\ Goto(c, "lookup")
  /\ UNCHANGED <<attachment, node, wallet, source, live, proofs>>

\* Mutation: only the persisted identity is compared.
Speaks_SourceOnly == source = attached.id

\* validate_message_signer_wallet_identity
Speaks == attached.id = wallet /\ source = attached.id

\* The attachment is validated against the unlocked wallet and the persisted
\* identity, and stays locked while its message signer works.
Lookup(c) ==
  /\ pc[c] = "lookup" /\ mutex = None
  /\ IF attached # None /\ Speaks /\ attached.message # None
       THEN /\ mutex' = c
            /\ Goto(c, "sign")
            /\ UNCHANGED guard
       ELSE /\ guard' = None
            /\ Return(c)
            /\ UNCHANGED mutex
  /\ UNCHANGED <<attached, node, wallet, source, live, proofs>>

\* A proof, or an error: of the address, or of a signer that is revoked.
Sign(c) ==
  /\ pc[c] = "sign"
  /\ \/ /\ attached.message \in live
        /\ proofs' = proofs \cup {[wallet |-> wallet, key |-> Key[attached.message]]}
     \/ UNCHANGED proofs
  /\ mutex' = None /\ guard' = None
  /\ Return(c)
  /\ UNCHANGED <<attached, node, wallet, source, live>>

(***************************************************************************)
(* Shutting down.                                                          *)
(***************************************************************************)

\* NodeHandle::shutdown marks the node terminal under the attachment's mutex.
Shutdown(c) ==
  /\ pc[c] = "idle" /\ mutex = None
  /\ cancelled' = TRUE /\ terminal' = TRUE
  /\ Goto(c, "stop")
  /\ UNCHANGED <<attachment, stopped, identity, live, proofs>>

\* Mutation: the session is taken from under its users.
Stopped_NoGuard(c) ==
  /\ pc[c] = "stop"
  /\ wallet' = None
  /\ stopped' = TRUE
  /\ Return(c)
  /\ UNCHANGED <<attachment, cancelled, terminal, guard, source, live, proofs>>

\* stop_node takes the session out once nobody holds the unlocked state.
Stopped(c) ==
  /\ pc[c] = "stop" /\ guard = None
  /\ wallet' = None
  /\ stopped' = TRUE
  /\ Return(c)
  /\ UNCHANGED <<attachment, cancelled, terminal, guard, source, live, proofs>>

\* A fatal error of the peer listener cancels the node without that mutex.
ListenerFails ==
  /\ ~cancelled /\ cancelled' = TRUE
  /\ UNCHANGED <<attachment, terminal, stopped, identity, live, calls, proofs>>

(***************************************************************************)
(* The node's and the host's other calls.                                  *)
(***************************************************************************)

\* A wallet opened with the attached signer keeps to the identity it was
\* first opened with; what a password opens is not tied to that file here.
Unlock(id) ==
  /\ ~cancelled /\ guard = None /\ wallet = None
  /\ \/ /\ mutex = None /\ attached # None
        /\ id = attached.id /\ source \in {id, None}
        /\ source' = id
     \/ UNCHANGED source
  /\ wallet' = id
  /\ UNCHANGED <<attachment, node, guard, live, calls, proofs>>

\* A nonterminal lock of the wallet.
Lock ==
  /\ ~cancelled /\ guard = None /\ wallet # None
  /\ wallet' = None
  /\ UNCHANGED <<attachment, node, guard, source, live, calls, proofs>>

\* The host revokes a signer, in whatever order; running calls are awaited.
Revoke(s) ==
  /\ s \in live
  /\ \A c \in Caller : pc[c] = "sign" => attached.message # s
  /\ live' = live \ {s}
  /\ UNCHANGED <<attachment, node, identity, calls, proofs>>

-------------------------------------------------------------------------------
Step(c) ==
  \/ \E signer \in Native \cup {None}, id \in Identity : Attach(c, signer, id)
  \/ Bootstrapped(c) \/ Publish(c) \/ Bind(c)
  \/ BeginSign(c) \/ Lookup(c) \/ Sign(c)
  \/ Shutdown(c) \/ Stopped(c)

Next ==
  \/ \E c \in Caller : Step(c)
  \/ \E id \in Identity : Unlock(id)
  \/ \E s \in Native : Revoke(s)
  \/ Detach
  \/ Lock
  \/ ListenerFails

Spec == Init /\ [][Next]_vars

-------------------------------------------------------------------------------
(***************************************************************************)
(* Properties                                                              *)
(***************************************************************************)

\* The message signer of an attachment holds the identity the attachment was
\* checked for, although other callers replace the attachment between the
\* publication of a native signer and its binding.
MessageSignerMatches ==
  attached # None =>
    (attached.message # None => Key[attached.message] = attached.id)

\* Every BIP-322 proof handed out is signed by the key of the wallet that was
\* unlocked when it was asked for, whoever attached what meanwhile.
ProofsSpeakForWallet ==
  \A p \in proofs : p.key = p.wallet

\* Once a shutdown has marked the node terminal, no signer is published or
\* bound, not even by a bootstrap that was under way (the comment in
\* attach_host_with_expected_key_source); once it has returned no proof is
\* produced either, so the signer may be revoked.
TerminalIsFinal ==
  [][/\ terminal => attached' \in {attached, None}
     /\ stopped => proofs' = proofs]_vars
===============================================================================
