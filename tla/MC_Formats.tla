----------------------------- MODULE MC_Formats -----------------------------
(* Instances of Formats for TLC.                                           *)
EXTENDS Formats

MCKey == {<<"a">>, <<"b">>, <<"a", "b">>}
MCValue == {<<>>, <<"c">>, <<"c", "a">>, <<"b">>}
MCItem == {<<>>, <<"a">>, <<"a", "b">>}
MCCryptKey == <<1, 0, 0, 1, 1>>
MCFinal == <<0, 1, 1, 0>>
Numeric(octets, separator, more) ==
    [octets |-> octets, separator |-> separator, more |-> more]
IPv4 == Numeric(<<192, 168, 1, 42>>, ".", FALSE)
HostName == Numeric(<<>>, "", TRUE)
MCAdvertised ==
    {IPv4, HostName, Numeric(<<256, 168, 1, 42>>, ".", FALSE),
     Numeric(<<192, 168, 1, 42>>, ".", TRUE)}
Documented == {IPv4, HostName}
MCMaxLength == [fields |-> 3, list |-> 5, octets |-> 5, bits |-> 12, dns |-> 9,
                browser |-> 14]
Question == [fields |-> 0, list |-> 0, octets |-> 0, bits |-> 0, dns |-> 8, browser |-> 0]
=============================================================================
