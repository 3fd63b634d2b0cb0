------------------------------ MODULE MCHealth ------------------------------
(* Small instances of Health for TLC.                                      *)
EXTENDS Health

Uniform(w) == [c \in Checks |-> w]
Config(weights, enabled, threshold) ==
  [weights |-> weights, enabled |-> enabled, threshold |-> threshold]

Default  == Config(Uniform(25), Checks, TRUE)
Heavy    == Config(Uniform(100), Checks, FALSE)
Odd      == Config([Uniform(7) EXCEPT !["DNS"] = 1], Checks, TRUE)
NoQuery  == Config(Uniform(25), Checks \ {"DNS"}, TRUE)
Nothing  == Config(Uniform(25), {}, FALSE)
ZeroTCP  == Config([Uniform(25) EXCEPT !["TCP"] = 0], Checks, FALSE)

SomeConfigs == {Default, Heavy, Odd, NoQuery, Nothing, ZeroTCP}
=============================================================================
