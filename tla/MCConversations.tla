-------------------------- MODULE MCConversations --------------------------
(* A small instance of the conversation registry for TLC. *)
EXTENDS Conversations, TLC

MCThreads2 == 1..2
MCSymmetry == Permutations(Profile) \cup Permutations(Workspace)
              \cup Permutations(Conv) \cup Permutations(Launch)
              \cup Permutations(Version) \cup Permutations(TrustDomain)
              \cup Permutations(RolloutFile) \cup Permutations(Fingerprint)
MCBaselines == {<< >>, <<1>>, <<2, 1>>}
=============================================================================
