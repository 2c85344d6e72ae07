------------------------------ MODULE MCDuties ------------------------------
EXTENDS LeaderDuties
MCOrder == <<"analysis", "incidents">>
=============================================================================
