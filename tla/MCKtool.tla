------------------------------ MODULE MCKtool ------------------------------
EXTENDS Ktool
=============================================================================
