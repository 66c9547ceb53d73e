------------------------------ MODULE MCSignOff ------------------------------
(* Two regimes; a mechanic with a certificate of one, which expires on the    *)
(* first day, and a student whose certificate authorises nothing.             *)
EXTENDS SignOff, TLC

CONSTANTS FAA, CARS, mechanic, student

MCType(reg, authorizes) == [regime |-> reg, authorizes |-> authorizes]

MCCredentialType == {MCType(FAA, TRUE), MCType(FAA, FALSE)}

MCNewCredential ==
    {[user |-> mechanic, type |-> MCType(FAA, TRUE), expires |-> 0],
     [user |-> student, type |-> MCType(FAA, FALSE), expires |-> Null]}

\* The requests of a kind, and the entries, are interchangeable.
MCSymmetry ==
    Permutations(Signer) \cup Permutations(Manager) \cup Permutations(Changer)
        \cup Permutations(Entry)
=============================================================================
