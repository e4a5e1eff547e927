------------------------------ MODULE MCControl ------------------------------
EXTENDS Control

Speeds == {-2, 0, 3}

=============================================================================
