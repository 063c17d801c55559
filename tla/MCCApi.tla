-------------------------------- MODULE MCCApi --------------------------------
EXTENDS CApi

CONSTANTS t1, t2
===============================================================================
