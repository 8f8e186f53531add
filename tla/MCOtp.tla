-------------------------------- MODULE MCOtp --------------------------------
EXTENDS Otp, TLC
Symmetry == Permutations(Reqs)
=============================================================================
