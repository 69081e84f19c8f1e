-------------------------------- MODULE X3dh --------------------------------
(***************************************************************************)
(* The sessions that x3dh.rs builds: build_initial_session from the bundle  *)
(* of the remote party, build_recipient_session from the keys that a pkmsg  *)
(* names.  The session secret is the sequence of the agreements that are    *)
(* concatenated; the first root key is the one derived from it.             *)
(***************************************************************************)
EXTENDS Ratchet

CONSTANT NoKey  \* there is no one-time prekey

\* The fourth agreement comes with a one-time prekey only.
WithPreKey(agreements, base, opk) ==
  IF opk = NoKey THEN agreements ELSE Append(agreements, DH(base, opk))

\* a1 || a2 || a3 of the initiator,
InitialSecret(identity, base, remote, spk, opk) ==
  WithPreKey(<<DH(identity, spk), DH(base, remote), DH(base, spk)>>, base, opk)

\* Mutation: the recipient concatenates in its own order as well.
RecipientSecretOwnOrder(identity, spk, opk, remote, base) ==
  WithPreKey(<<DH(identity, base), DH(spk, remote), DH(spk, base)>>, base, opk)

\* and a2 || a1 || a3 of the recipient.
RecipientSecret(identity, spk, opk, remote, base) ==
  WithPreKey(<<DH(spk, remote), DH(identity, base), DH(spk, base)>>, base, opk)

\* The initiator derives its sending chain at once, from the base key.
InitialSession(identity, base, remote, spk, opk) ==
  LET root == Derive(<<InitialSecret(identity, base, remote, spk, opk)>>, DH(base, spk))
  IN  [root |-> root, own |-> Bare(base), lastRemote |-> Bare(spk), previousCounter |-> 0,
       chains |-> With(<<>>, Bare(base), NewChain("sending", root)), pending |-> TRUE]

\* Mutation: the ratchet starts from the identity key.
RecipientSessionOnIdentity(identity, spk, opk, remote, base) ==
  [root |-> <<RecipientSecret(identity, spk, opk, remote, base)>>,
   own |-> Bare(identity), lastRemote |-> Bare(base), previousCounter |-> 0,
   chains |-> <<>>, pending |-> FALSE]

\* The recipient has no chain until the first frame makes it step; its ratchet
\* key is the signed prekey.
RecipientSession(identity, spk, opk, remote, base) ==
  [root |-> <<RecipientSecret(identity, spk, opk, remote, base)>>,
   own |-> Bare(spk), lastRemote |-> Bare(base), previousCounter |-> 0,
   chains |-> <<>>, pending |-> FALSE]
=============================================================================
