------------------------- MODULE MCAuthenticationJar -------------------------
(* Small instances of AuthenticationJar for TLC. *)
EXTENDS AuthenticationJar, TLC

CONSTANTS a, b, c, x, y, r1, r2

Url(h, full, base, realm, scheme) ==
    [host |-> h, full |-> full, base |-> base, realm |-> realm, scheme |-> scheme]

\* Nested paths of one host, and a host with NTLM.  The users of URLs add a second
\* scheme and realm.
Sites == {Url(x, <<a, b>>, <<a>>, r1, Digest), Url(x, <<a, b, c>>, <<a, b>>, r1, Digest),
          Url(y, <<a>>, <<>>, r2, NTLM)}

Interchangeable == Permutations(Jobs) \cup Permutations(Answers)
==============================================================================
