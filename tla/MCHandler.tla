----------------------------- MODULE MCHandler -----------------------------
(***************************************************************************)
(* A small instance of Handler: clients that ask for one name, whose entry *)
(* the program may have loaded.                                            *)
(***************************************************************************)
EXTENDS Handler, MCCache

ServFail == [Positive EXCEPT !.rcode = "SERVFAIL"]
GoodOrBad == {Positive, ServFail}

ClientsAndKeys == Clients \cup Keys
=============================================================================
