---------------------------- MODULE MCHtmlParser ----------------------------
(* Pages of a few chunks, each page made of the chunks of one theme. *)
EXTENDS HtmlParser

Tag(name)   == <<"<", name, ">">>
CloseTag(name) == <<"<", "/", name, ">">>

Spacing == {<<"x">>, <<"x", " ">>, <<" ">>, Tag("p"), Tag("pre"), CloseTag("pre"),
            Tag("li"), Tag("ul"), CloseTag("ul"), Tag("td"), <<"&", "nbsp", ";">>}
Linking == {<<"<", "a", " ", "href", "=", "u", "/">>, <<">">>, Tag("a"), CloseTag("a"),
            <<"<", "a", " ", "x", "=", "'", " ", "'", "href", "=", "\"", "v", "\"", ">">>,
            <<"x", "y">>, <<" ">>, Tag("p")}
Styling == {Tag("b"), CloseTag("b"), Tag("h1"), CloseTag("h1"), Tag("h2"), CloseTag("h2"),
            <<"x">>, Tag("hr"), Tag("code"), Tag("pre")}
Scanning == {<<"<">>, <<"/">>, <<">">>, <<"!">>, <<"-", "-">>, <<"&">>, <<"#", "3">>, <<"2">>,
             <<";">>, <<"script">>, <<"title">>, <<"x">>, <<"img">>}
Titles == {<<"x", " ">>, <<" ">>, Tag("title") \o Tag("pre"), Tag("title"),
           CloseTag("pre") \o CloseTag("title"), CloseTag("title")}
Themes == {Spacing, Linking, Styling, Scanning, Titles}
NoFailure == {{}}
Failures == {{}, {"scrap"}, {"href"}, {"links"}}
=============================================================================
