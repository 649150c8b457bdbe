------------------------------ MODULE MCConfig ------------------------------
(* Instance of Config for TLC: two servers, one agent, two pools; " " is a *)
(* quoted blank, " n" a quoted name with a space before it.                *)
EXTENDS Config

MCTexts == {"", " ", "n", " n", "m", "a", "p", "q", "t"}
MCTrim  == [x \in MCTexts |-> CASE x = " " -> "" [] x = " n" -> "n" [] OTHER -> x]

Section(kind, name) == [line |-> "section", kind |-> kind, name |-> name]
Entry(key, value)   == [line |-> "entry", key |-> key, value |-> value]

Server(name) ==
    <<Section("nfs", name), Entry("host", "t"), Entry("export", "t"), Entry("mount", "t")>>

(* Every file begins like this: two servers, one of them in a pool. *)
Beginning == Server("n") \o Server("m") \o <<Section("pool", "p"), Entry("nfs", "m")>>

BeginningFirst == IsPrefix(file, Beginning) \/ IsPrefix(Beginning, file)

MCLines ==
    Range(Beginning) \cup
    {Section("agent", "a"), Section("pool", "q"), Section("control", ""),
     Entry("token", "t"), Entry("token", " "), Entry("agents", "a"), Entry("pools", "q"),
     Entry("nfs", " n"), Entry("nfs", "q"), Entry("host", " "),
     Section("nfs", ""), Section("control", "n"), Section("other", "n"),
     [line |-> "malformed"]}
=============================================================================
