------------------------ MODULE SignerAttachmentProofs ------------------------
(***************************************************************************)
(* Theorems about SignerAttachment, for every number of callers, signers   *)
(* and identities.  That a proof is signed by the wallet's own key rests   *)
(* on the two mutexes: from the validation to the signature nobody         *)
(* replaces the attachment and nobody takes the wallet.  IInv says who     *)
(* holds them, and what is known meanwhile.                                *)
(***************************************************************************)
EXTENDS SignerAttachment, TLAPS

\* Who holds the two mutexes is told by where it is.
HolderOK ==
  \A c \in Caller :
    /\ mutex = c <=> pc[c] = "sign"
    /\ guard = c <=> pc[c] \in {"lookup", "sign"}

\* A signing caller has an unlocked wallet, and once validated it keeps an
\* attachment that speaks for it.
CallOK ==
  \A c \in Caller :
    /\ pc[c] \in {"lookup", "sign"} => wallet # None
    /\ pc[c] = "sign" =>
         attached # None /\ attached.message # None /\ attached.id = wallet

\* A stopping node is marked, a marked one cancelled, and once stopped it has no
\* wallet unlocked.
StopOK ==
  /\ \A c \in Caller : pc[c] = "stop" => terminal
  /\ stopped => terminal /\ wallet = None
  /\ terminal => cancelled

IInv ==
  /\ TypeOK /\ HolderOK /\ CallOK /\ StopOK
  /\ MessageSignerMatches /\ ProofsSpeakForWallet

\* A node nobody has attached a signer to satisfies the invariant.
LEMMA InitIInv == Init => IInv
  BY AttachmentAssumption
  DEF Init, IInv, TypeOK, HolderOK, CallOK, StopOK, MessageSignerMatches,
      ProofsSpeakForWallet

\* Every step preserves it: one step of the proof per action.
LEMMA NextIInv == IInv /\ [Next]_vars => IInv'
<1> SUFFICES ASSUME IInv, [Next]_vars PROVE IInv'
  OBVIOUS
<1> USE AttachmentAssumption
    DEF IInv, TypeOK, HolderOK, CallOK, StopOK, MessageSignerMatches,
        ProofsSpeakForWallet, Attachment, Job, Goto, Return, attachment, node,
        identity, calls
<1>1. ASSUME NEW c \in Caller, NEW signer \in Native \cup {None}, NEW id \in Identity,
             Attach(c, signer, id)
      PROVE IInv'
  BY <1>1 DEF Attach
<1>2. ASSUME NEW c \in Caller, Bootstrapped(c)
      PROVE IInv'
  BY <1>2 DEF Bootstrapped
<1>3. ASSUME NEW c \in Caller, Publish(c)
      PROVE IInv'
  BY <1>3 DEF Publish
<1>4. ASSUME NEW c \in Caller, Bind(c)
      PROVE IInv'
  BY <1>4 DEF Bind
<1>5. ASSUME NEW c \in Caller, BeginSign(c)
      PROVE IInv'
  BY <1>5 DEF BeginSign
<1>6. ASSUME NEW c \in Caller, Lookup(c)
      PROVE IInv'
  BY <1>6 DEF Lookup, Speaks
<1>7. ASSUME NEW c \in Caller, Sign(c)
      PROVE IInv'
  BY <1>7 DEF Sign
<1>8. ASSUME NEW c \in Caller, Shutdown(c)
      PROVE IInv'
  BY <1>8 DEF Shutdown
<1>9. ASSUME NEW c \in Caller, Stopped(c)
      PROVE IInv'
  BY <1>9 DEF Stopped
<1>10. ASSUME NEW id \in Identity, Unlock(id)
      PROVE IInv'
  BY <1>10 DEF Unlock
<1>11. ASSUME NEW s \in Native, Revoke(s)
      PROVE IInv'
  BY <1>11 DEF Revoke
<1>12. ASSUME Lock
      PROVE IInv'
  BY <1>12 DEF Lock
<1>13. ASSUME ListenerFails
      PROVE IInv'
  BY <1>13 DEF ListenerFails
<1>14. ASSUME Detach
      PROVE IInv'
  BY <1>14 DEF Detach
<1>15. CASE UNCHANGED vars
  BY <1>15 DEF vars
<1>16. QED
  BY <1>1, <1>2, <1>3, <1>4, <1>5, <1>6, <1>7, <1>8, <1>9, <1>10, <1>11, <1>12, <1>13, <1>14, <1>15
  DEF Next, Step

\* So it holds in every state of every behaviour.
LEMMA SpecIInv == Spec => []IInv
  BY InitIInv, NextIInv, PTL DEF Spec

\* Every variable keeps its type.
THEOREM TypeCorrect == Spec => []TypeOK
<1>1. IInv => TypeOK
  BY DEF IInv
<1>2. QED
  BY <1>1, SpecIInv, PTL

\* Whoever replaces the attachment between a publication and its binding, the
\* message signer holds the identity the attachment was checked for.
THEOREM MessageSignersMatch == Spec => []MessageSignerMatches
<1>1. IInv => MessageSignerMatches
  BY DEF IInv
<1>2. QED
  BY <1>1, SpecIInv, PTL

\* Every proof is signed by the key of the wallet it was asked of.
THEOREM ProofsAreOurs == Spec => []ProofsSpeakForWallet
<1>1. IInv => ProofsSpeakForWallet
  BY DEF IInv
<1>2. QED
  BY <1>1, SpecIInv, PTL

\* No step attaches or binds a signer in a node marked terminal: publishing and
\* binding look at the token under the mutex the mark was made under.
LEMMA MarkIsFinal ==
  IInv /\ [Next]_vars => (terminal => attached' \in {attached, None})
<1>1. ASSUME IInv, [Next]_vars, terminal PROVE attached' \in {attached, None}
  <2> USE <1>1 DEF IInv, StopOK, attachment, node, identity, calls
  <2>1. ASSUME NEW c \in Caller, Step(c) PROVE attached' \in {attached, None}
    BY <2>1 DEF Step, Attach, Bootstrapped, Publish, Bind, BeginSign, Lookup, Sign,
                Shutdown, Stopped
  <2>2. ASSUME NEW id \in Identity, Unlock(id) PROVE attached' \in {attached, None}
    BY <2>2 DEF Unlock
  <2>3. ASSUME NEW s \in Native, Revoke(s) PROVE attached' \in {attached, None}
    BY <2>3 DEF Revoke
  <2>4. QED
    BY <2>1, <2>2, <2>3 DEF Next, Detach, Lock, ListenerFails, vars
<1>2. QED
  BY <1>1

\* No step produces a proof in a node whose shutdown has returned: the wallet is
\* gone, and a call that still had it would hold the guard.
LEMMA StopIsFinal == IInv /\ [Next]_vars => (stopped => proofs' = proofs)
<1>1. ASSUME IInv, [Next]_vars, stopped PROVE proofs' = proofs
  <2> USE <1>1 DEF IInv, StopOK, CallOK
  <2>1. ASSUME NEW c \in Caller, Step(c) PROVE proofs' = proofs
    BY <2>1 DEF Step, Attach, Bootstrapped, Publish, Bind, BeginSign, Lookup, Sign,
                Shutdown, Stopped
  <2>2. ASSUME NEW id \in Identity, Unlock(id) PROVE proofs' = proofs
    BY <2>2 DEF Unlock
  <2>3. ASSUME NEW s \in Native, Revoke(s) PROVE proofs' = proofs
    BY <2>3 DEF Revoke
  <2>4. QED
    BY <2>1, <2>2, <2>3 DEF Next, Detach, Lock, ListenerFails, vars
<1>2. QED
  BY <1>1

\* Both for every behaviour: nothing is attached to a marked node, and nothing
\* signed by a stopped one.
THEOREM ShutdownIsTerminal == Spec => TerminalIsFinal
<1>1. IInv /\ [Next]_vars => [/\ terminal => attached' \in {attached, None}
                              /\ stopped => proofs' = proofs]_vars
  BY MarkIsFinal, StopIsFinal
<1>2. QED
  BY <1>1, SpecIInv, PTL DEF Spec, TerminalIsFinal
===============================================================================
