----------------------------- MODULE MCEcp3Path ------------------------------
(***************************************************************************)
(* Small instances of Ecp3Path.                                            *)
(***************************************************************************)
EXTENDS Ecp3Path

Client(prog, test, addr, data) ==
    [prog |-> prog, test |-> test, addr |-> addr, data |-> data]

Test(prog) == Client(prog, TRUE, <<0, 0, 0, 0, 0, 0>>, 0)

\* Single writes; the data count through byte borders.
OneA64    == Client("a64", FALSE, <<0, 18, 208, 1, 2, 252>>, 65534)
OneA32    == Client("a32", FALSE, <<0, 0, 208, 3, 0, 4>>, 255)
OneClient == Client("ipnuma_client", FALSE, <<0, 1, 0, 0, 128, 0>>, 305419896)

TestClients == {Test("a64"), Test("ipnuma_client"), OneA64, OneA32, OneClient}

TestPairs == {{Test("a64"), OneA32}, {Test("ipnuma_client"), OneA64},
              {OneA64, OneClient}}

\* Check sequences that look like the end of the packet and like commands.
TestTrailers == {<<0, 0, 0, 0>>, <<193, 255, 1, 2>>}

=============================================================================
