---------------------------- MODULE MCQuestionPool ----------------------------
EXTENDS QuestionPool, TLC

\* The lanes run the same code.
SameLanes == Permutations(Lanes)
=============================================================================
