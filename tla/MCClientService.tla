--------------------------- MODULE MCClientService ---------------------------
(***************************************************************************)
(* A finite instance of ClientService: for each field a value that is      *)
(* fine, the zero value where it is worth writing, and one that is not.    *)
(***************************************************************************)
EXTENDS ClientService

MCValues ==
    [uri     |-> {"good", "bad", "odd"},
     host    |-> {"h"},
     port    |-> {1, MaxPort + 1},
     name    |-> {"n", ""},
     mode    |-> {"disable", "bad"},
     cert    |-> {"ca", "missing", "garbled"},
     max     |-> {1, -1},
     min     |-> {0, 1, -1},
     retries |-> {0, -1},
     timeout |-> {0, 1, -1},
     region  |-> {"r"},
     app     |-> {"a", ""}]
=============================================================================
