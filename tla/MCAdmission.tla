----------------------------- MODULE MCAdmission -----------------------------
(***************************************************************************)
(* A legal list of two clients, one of them with two certificates, and     *)
(* lists with each mistake: among them a fingerprint that two clients list *)
(* in different case.                                                      *)
(***************************************************************************)
EXTENDS Admission

CONSTANTS a, b, j, fa, fb, fx

Low(f) == [digest |-> f, lower |-> TRUE]
Up(f) == [digest |-> f, lower |-> FALSE]
Item(i, fs, js) == [id |-> i, cert_sha256 |-> fs, allowed_jails |-> js]

MCFiles ==
    {<<Item(a, <<Low(fa), Up(fx)>>, <<j>>), Item(b, <<Up(fb)>>, <<j>>)>>,
     <<Item(a, <<Low(fa)>>, <<j>>), Item(b, <<Up(fa)>>, <<j>>)>>,
     <<Item(a, <<Low(fa)>>, <<j>>), Item(a, <<Low(fb)>>, <<j>>)>>,
     <<Item(a, <<Low(fa), Up(fa)>>, <<j>>)>>,
     <<Item(a, <<>>, <<j>>)>>,
     <<Item(a, <<Low(fa)>>, <<>>)>>,
     <<Item(a, <<Low(fa)>>, <<j, j>>)>>,
     <<Item(a, <<Up(fa)>>, <<j>>)>>,
     <<>>}
=============================================================================
