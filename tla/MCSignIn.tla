------------------------------ MODULE MCSignIn ------------------------------
EXTENDS SignIn
CONSTANTS home, work
=============================================================================
