----------------------------- MODULE MCVersions -----------------------------
(***************************************************************************)
(* Every text of up to four characters, alone and after openings that lead *)
(* into each part of a version.                                            *)
(***************************************************************************)
EXTENDS Versions

Core(patch) == <<"1", ".", "0", ".">> \o patch
Release == Core(<<"0">>)
Pre(s) == Release \o <<"-">> \o s

MCOpenings ==
  {<< >>, <<"0">>, <<"1", ".">>, Core(<< >>), Pre(<< >>), Release \o <<"+">>}

MCCorpus ==
  {Release, Core(<<"1">>), Core(<<"1", "0">>), Core(<<"2">>),
   Release \o <<"+", "a">>, Pre(<<"0">>), Pre(<<"2">>), Pre(<<"1", "0">>),
   Pre(<<"a">>), Pre(<<"-">>), Pre(<<"a", "1">>), Pre(<<"a", ".">>),
   Pre(<<"1", ".", "a">>), Pre(<<"a", ".", "1">>), Pre(<<"a", ".", "1", "0">>)}
=============================================================================
