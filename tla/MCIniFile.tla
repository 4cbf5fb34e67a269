------------------------------ MODULE MCIniFile ------------------------------
(* Files put together from up to Pieces pieces: lines, and parts of lines    *)
(* that join to lines of every other kind.                                  *)
EXTENDS IniFile

CONSTANTS Pieces

MCCharacters == Blank \cup {"=", "[", "]", ";", "a", "b"}

HeaderA == <<"[", "a", "]", LF>>
HeaderB == <<"[", "b", "]">>
EntryA == <<"a", "=", "b", LF>>
Parts ==
  {HeaderA, HeaderB, EntryA, <<"a">>, <<"=">>, <<Space>>, <<CR>>, <<LF>>, <<";">>, <<"[">>}

AllTexts == {FlattenSeq(s) : s \in BoundedSeq(Parts, Pieces)}

ScannerOption == [section |-> <<"b">>, name |-> <<"b">>, value |-> <<"a">>]
MCNewOptions == {ScannerOption}
=============================================================================
