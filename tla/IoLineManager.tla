----------------------------- MODULE IoLineManager -----------------------------
(***************************************************************************)
(* How IoLineManager finds the factory for an address and what it hands to  *)
(* it, src/src/iolinemanager.cpp, with the factories that createLineManager *)
(* of the POSIX build registers.                                            *)
(*                                                                          *)
(* A text is a sequence of characters, except that the name of a scheme     *)
(* counts as one: nothing looks inside it.                                  *)
(***************************************************************************)
EXTENDS Naturals, Sequences, SequencesExt

\* m_impl->factories, in the order of registration, by the scheme each supports.
Factories == <<"inproc", "local", "tcp">>

\* address.find_first_of("://"): the first ':' or '/', not the first "://".
FindFirstOf(text, chars) ==
  SelectInSeq(text, LAMBDA c : c \in chars)

\* Mutant: only ":/" is skipped.
BaseAddressEarly(text, delimiter) == SubSeq(text, delimiter + 2, Len(text))

\* address.substr(delimiter + 3): the delimiter and two more characters are
\* skipped, whatever they are.
BaseAddress(text, delimiter) == SubSeq(text, delimiter + 3, Len(text))

Supports(factory, scheme) == scheme = <<factory>>

\* What becomes of createClient or createServer: nullptr when there is no
\* delimiter or no factory, std::out_of_range when substr(delimiter + 3) starts
\* behind the end, or a call of the factory with the rest.
Resolve(text) ==
  LET delimiter == FindFirstOf(text, {":", "/"})
      scheme    == SubSeq(text, 1, delimiter - 1)
      factory   == SelectInSeq(Factories, LAMBDA f : Supports(f, scheme))
      Outcome(what) == [outcome |-> what, scheme |-> "", base |-> <<>>]
  IN  CASE delimiter = 0 \/ factory = 0 -> Outcome("nullptr")
        [] delimiter > 0 /\ factory > 0 /\ delimiter + 2 > Len(text) -> Outcome("out_of_range")
        [] OTHER -> [outcome |-> "factory", scheme |-> Factories[factory],
                     base |-> BaseAddress(text, delimiter)]
===============================================================================
