------------------------------ MODULE MCAccounts ------------------------------
EXTENDS Accounts, TLC

\* Slots carry no state of their own.
Slots == Permutations(Reqs) \cup Permutations(Sids) \cup Permutations(Keys)

\* The count of a slot that was honoured once and that nothing names any more
\* tells two states apart only until the slot is issued again.
View ==
    <<site, users, sessions, logins, regs, factors, tokens, req,
      [x \in DOMAIN used |-> IF x \in Named \/ used[x] > 1 THEN used[x] ELSE 0]>>
=============================================================================
