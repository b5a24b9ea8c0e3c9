------------------------------ MODULE MCOnline ------------------------------
EXTENDS Online

Home  == [tls |-> FALSE, host |-> "address", path |-> << "a", "b" >>]
Named == [tls |-> FALSE, host |-> "name", path |-> << "a" >>]
Safe  == [tls |-> TRUE, host |-> "name", path |-> << "a" >>]
Odd   == [tls |-> FALSE, host |-> "zero", path |-> << "a" >>]

PageHrefs == {[kind |-> "relative", path |-> << "b" >>], [kind |-> "root", path |-> << "c" >>],
              [kind |-> "absolute", url |-> Named], [kind |-> "none"]}
Cuts == {3}

Answer(what, n) == [what |-> what, pieces |-> n]
Pages == {Answer("page", 2), Answer("redirect", 1), Answer("picture", 1), Answer("junk", 0)}

\* One reads a page while a message goes out, one only writes mail, to a server that
\* wants a login, one follows links and redirects, one reads a page over TLS.
Person(urls, hrefs, o, s, e, replies) ==
  [urls |-> urls, hrefs |-> hrefs, opens |-> o, sends |-> s, edits |-> e,
   login |-> urls = {}, replies |-> replies]
Both     == Person({Home}, {}, 1, 1, 1, {Answer("page", 1)})
Writer   == Person({}, {}, 0, 2, 2, {})
Reader   == Person({Home, Odd, NoUrl}, PageHrefs, 2, 0, 0, Pages)
Shopper  == Person({Safe}, {}, 1, 0, 0, {Answer("page", 3)})
Everyone == {Both, Writer, Reader, Shopper}
=============================================================================
