--------------------------- MODULE MCModelClient ----------------------------
EXTENDS ModelClient, TLC

CONSTANTS request, one, other

MCCalls == {request}
MCClosers == {one, other}
=============================================================================
