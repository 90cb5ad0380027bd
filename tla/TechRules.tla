------------------------------- MODULE TechRules -------------------------------
(***************************************************************************)
(* The rule set of the detection engine (detectors/rules.ts), as data: a    *)
(* rule names a technology, what the technology brings with it, and its     *)
(* signals.  What a signal matches (a regex over HTML, a header, a cookie)  *)
(* is left out; what counts is how sure it makes the engine and, for a      *)
(* signal that looks for a global of the page's window, which one: the      *)
(* crawler only asks for the globals on a list of its own.  Two signals of  *)
(* a rule that read the page and are equally sure stand as one.             *)
(***************************************************************************)
EXTENDS Naturals, Sequences

(* A signal; global is "" when it reads something else than window.         *)
Signal(global, confidence) == [global |-> global, confidence |-> confidence]

(* The rule for technology name; globals are pairs of a global and a        *)
(* confidence, page the confidences of the other signals.                   *)
T(name, implies, globals, page) ==
  [name |-> name, implies |-> implies,
   signals |-> {Signal(g[1], g[2]) : g \in globals} \cup {Signal("", c) : c \in page}]

(* Front-end frameworks and site generators. *)
Frameworks == <<
  T("Next.js", {"React", "Node.js"}, {<<"__NEXT_DATA__", 98>>}, {95, 90, 85}),
  T("React", {}, {<<"React", 90>>}, {90, 85, 80}),
  T("Nuxt", {"Vue.js"}, {<<"__NUXT__", 98>>}, {95, 90}),
  T("Vue.js", {}, {<<"Vue", 90>>}, {90, 85, 80}),
  T("Angular", {}, {<<"getAllAngularRootElements", 95>>}, {98, 80, 40}),
  T("Svelte", {}, {<<"__sveltekit", 95>>}, {90, 85}),
  T("Remix", {"React"}, {<<"__remixContext", 98>>}, {90}), T("Astro", {}, {}, {95, 85}),
  T("Gatsby", {"React"}, {<<"___gatsby", 95>>}, {95, 90}), T("Hugo", {}, {}, {95}),
  T("Jekyll", {}, {}, {95}), T("Eleventy", {}, {}, {95}) >>

(* CMS, shops, UI kits, libraries. *)
ContentAndShops == <<
  T("WordPress", {"PHP"}, {}, {98, 95, 90, 80}), T("Drupal", {"PHP"}, {<<"Drupal", 95>>}, {98, 95}),
  T("Joomla", {"PHP"}, {<<"Joomla", 90>>}, {95}), T("Webflow", {}, {}, {98, 95}),
  T("Shopify", {}, {<<"Shopify", 98>>}, {98, 95}), T("WooCommerce", {"WordPress"}, {}, {95, 85}),
  T("Magento", {"PHP"}, {}, {85, 70}), T("Squarespace", {}, {}, {98, 95}),
  T("Wix", {}, {}, {98, 90}), T("Tailwind CSS", {}, {}, {95, 90, 55}),
  T("Bootstrap", {}, {}, {90, 85}), T("Material UI", {}, {}, {95, 90}),
  T("Chakra UI", {}, {}, {90, 85}), T("styled-components", {}, {}, {90, 80}),
  T("jQuery", {}, {<<"jQuery", 95>>}, {90}), T("Alpine.js", {}, {<<"Alpine", 95>>}, {80}),
  T("htmx", {}, {<<"htmx", 95>>}, {85}), T("GraphQL", {}, {<<"__APOLLO_CLIENT__", 90>>}, {60}),
  T("webpack", {}, {<<"webpackChunk", 85>>, <<"__webpack_require__", 90>>}, {}),
  T("Vite", {}, {}, {95, 60}) >>

(* Languages, server frameworks, servers, hosting, CDN, analytics, fonts. *)
ServersAndHosts == <<
  T("PHP", {}, {}, {95, 92, 90}), T("Node.js", {}, {}, {85}), T("Ruby on Rails", {}, {}, {95, 80}),
  T("Django", {}, {}, {95, 90}), T("Laravel", {"PHP"}, {}, {95, 40}),
  T("ASP.NET", {}, {}, {98, 95, 90}), T("Express", {"Node.js"}, {}, {90}), T("nginx", {}, {}, {95}),
  T("Apache", {}, {}, {95}), T("LiteSpeed", {}, {}, {95}), T("Vercel", {}, {}, {98}),
  T("Netlify", {}, {}, {98}), T("GitHub Pages", {}, {}, {95}), T("Amazon S3", {}, {}, {95}),
  T("Firebase Hosting", {}, {}, {90}), T("Render", {}, {}, {95}),
  T("Cloudflare Pages", {}, {}, {80}), T("Cloudflare", {}, {}, {98, 95}),
  T("Amazon CloudFront", {}, {}, {98, 90}), T("Fastly", {}, {}, {98, 70}),
  T("Akamai", {}, {}, {98, 95}), T("bunny.net", {}, {}, {98}),
  T("Google Analytics", {}, {<<"gtag", 85>>}, {95}),
  T("Google Tag Manager", {}, {<<"dataLayer", 60>>}, {95}),
  T("Meta Pixel", {}, {<<"fbq", 90>>}, {90}), T("Sentry", {}, {<<"Sentry", 90>>}, {85}),
  T("Hotjar", {}, {}, {95}), T("Plausible", {}, {}, {95}), T("Google Fonts", {}, {}, {95, 80}),
  T("Font Awesome", {}, {}, {95, 80}) >>

(* Animation, as far as the carousels. *)
Animation == <<
  T("GSAP", {}, {<<"gsap", 95>>, <<"TweenMax", 90>>, <<"ScrollTrigger", 85>>}, {90, 85}),
  T("Framer Motion", {}, {}, {90, 85, 80}), T("Motion One", {}, {<<"Motion", 80>>}, {75}),
  T("Three.js", {}, {<<"THREE", 98>>}, {90, 75}),
  T("Lottie", {}, {<<"lottie", 95>>, <<"bodymovin", 95>>}, {95, 90}),
  T("AOS", {}, {<<"AOS", 95>>}, {90, 85}), T("Anime.js", {}, {<<"anime", 90>>}, {85}),
  T("Swiper", {}, {<<"Swiper", 95>>}, {90, 85}),
  T("Locomotive Scroll", {}, {<<"LocomotiveScroll", 95>>}, {95, 90}),
  T("Lenis", {}, {<<"Lenis", 90>>}, {90, 70}),
  T("ScrollReveal", {}, {<<"ScrollReveal", 95>>}, {90}),
  T("ScrollMagic", {}, {<<"ScrollMagic", 95>>}, {90}), T("WOW.js", {}, {<<"WOW", 90>>}, {85, 70}),
  T("Animate.css", {}, {}, {95, 85, 80}), T("Slick Carousel", {"jQuery"}, {}, {90}) >>

(* The rest of animation; back ends, BaaS, headless CMS. *)
Backends == <<
  T("Owl Carousel", {"jQuery"}, {}, {95, 90}), T("Splide", {}, {<<"Splide", 95>>}, {85}),
  T("Rive", {}, {<<"rive", 90>>}, {90}), T("Spline", {}, {}, {98, 90}),
  T("particles.js", {}, {<<"particlesJS", 95>>, <<"tsParticles", 95>>}, {90}),
  T("Vanta.js", {"Three.js"}, {<<"VANTA", 95>>}, {90}), T("Barba.js", {}, {<<"barba", 95>>}, {90}),
  T("Java", {}, {}, {95, 85}), T("Apache Tomcat", {"Java"}, {}, {95}), T("Python", {}, {}, {90}),
  T("Gunicorn", {"Python"}, {}, {95}), T("Uvicorn", {"Python"}, {}, {95}),
  T("Flask", {"Python"}, {}, {90}), T("Microsoft IIS", {}, {}, {98}), T("Caddy", {}, {}, {95}),
  T("Cloudflare Workers", {}, {}, {90, 30}), T("Supabase", {}, {}, {95}),
  T("Firebase", {}, {}, {95}), T("Strapi", {"Node.js"}, {}, {98}),
  T("Ghost", {"Node.js"}, {}, {95}), T("Sanity", {}, {}, {95}), T("Contentful", {}, {}, {95}),
  T("Prismic", {}, {}, {95}), T("Framer", {}, {}, {95}) >>

(* More client and server frameworks, CMS, shops. *)
MoreFrameworks == <<
  T("SvelteKit", {"Svelte"}, {}, {95, 90}), T("Qwik", {}, {}, {98, 95, 85}),
  T("SolidJS", {}, {<<"_$HY", 90>>}, {60}), T("Preact", {}, {<<"__PREACT_DEVTOOLS__", 95>>}, {85}),
  T("Lit", {}, {<<"litElementVersions", 95>>, <<"litHtmlVersions", 95>>}, {80}),
  T("Stimulus", {}, {<<"Stimulus", 95>>}, {80}), T("Ember", {}, {<<"Ember", 95>>}, {90}),
  T("Backbone", {"jQuery"}, {<<"Backbone", 95>>}, {}), T("Inferno", {}, {<<"Inferno", 95>>}, {}),
  T("Marko", {}, {<<"$MARKO", 90>>}, {}), T("Fresh", {"Deno"}, {}, {95}),
  T("AdonisJS", {"Node.js"}, {}, {95}), T("Symfony", {"PHP"}, {}, {85, 80}),
  T("CodeIgniter", {"PHP"}, {}, {95}), T("CakePHP", {"PHP"}, {}, {95}),
  T("Spring Boot", {"Java"}, {}, {90}), T("Phoenix", {}, {<<"Phoenix", 90>>}, {75}),
  T("TYPO3", {"PHP"}, {}, {95}), T("Craft CMS", {"PHP"}, {}, {95}),
  T("Payload CMS", {"Node.js"}, {}, {95}), T("Directus", {"Node.js"}, {}, {95, 70}),
  T("Hygraph", {}, {}, {95}), T("DatoCMS", {}, {}, {95}), T("Storyblok", {}, {}, {95}),
  T("ButterCMS", {}, {}, {95}), T("BigCommerce", {}, {}, {95}),
  T("OpenCart", {"PHP"}, {}, {95, 90}), T("PrestaShop", {"PHP"}, {}, {95}),
  T("Ecwid", {}, {<<"Ecwid", 95>>}, {90}), T("Snipcart", {}, {<<"Snipcart", 95>>}, {95}),
  T("Saleor", {"Python"}, {}, {80}) >>

(* More UI kits, 3D, build tools, languages, hosting, CDN, analytics. *)
MoreKits == <<
  T("Ant Design", {}, {}, {95, 90}), T("Mantine", {}, {}, {95, 90}),
  T("Radix UI", {}, {}, {95, 80}), T("shadcn/ui", {"Radix UI", "Tailwind CSS"}, {}, {70}),
  T("DaisyUI", {"Tailwind CSS"}, {}, {85, 60}), T("Flowbite", {"Tailwind CSS"}, {}, {95}),
  T("Semantic UI", {}, {}, {90, 85}), T("Bulma", {}, {}, {95, 80}), T("Foundation", {}, {}, {90}),
  T("Vuetify", {"Vue.js"}, {}, {95, 90}), T("PrimeReact", {"React"}, {}, {95}),
  T("PrimeVue", {"Vue.js"}, {}, {95}), T("Quasar", {"Vue.js"}, {}, {95}),
  T("Babylon.js", {}, {<<"BABYLON", 98>>}, {90}), T("PixiJS", {}, {<<"PIXI", 98>>}, {90}),
  T("Matter.js", {}, {<<"Matter", 90>>}, {85}), T("Parcel", {}, {<<"parcelRequire", 95>>}, {}),
  T("Deno", {}, {}, {90}), T("Ruby", {}, {}, {85}), T("Railway", {}, {}, {98}),
  T("Fly.io", {}, {}, {98}), T("AWS Amplify", {}, {}, {90}),
  T("Azure Static Web Apps", {}, {}, {95, 90}), T("jsDelivr", {}, {}, {95}),
  T("unpkg", {}, {}, {95}), T("Fathom", {}, {}, {95}),
  T("Mixpanel", {}, {<<"mixpanel", 90>>}, {95}), T("PostHog", {}, {<<"posthog", 90>>}, {95}),
  T("Amplitude", {}, {<<"amplitude", 90>>}, {90}), T("Segment", {}, {}, {95}),
  T("Heap", {}, {<<"heap", 90>>}, {95}) >>

(* Monitoring, authentication, payment, databases, maps, AI, fonts. *)
Services == <<
  T("LogRocket", {}, {<<"LogRocket", 95>>}, {95}), T("Bugsnag", {}, {<<"Bugsnag", 95>>}, {95}),
  T("Datadog", {}, {<<"DD_RUM", 95>>, <<"DD_LOGS", 95>>}, {95}),
  T("New Relic", {}, {<<"NREUM", 95>>}, {95}), T("Raygun", {}, {<<"rg4js", 95>>}, {90}),
  T("Clerk", {}, {<<"Clerk", 95>>}, {95}), T("Auth0", {}, {}, {95}),
  T("Firebase Auth", {"Firebase"}, {}, {95}), T("Supabase Auth", {"Supabase"}, {}, {95}),
  T("Okta", {}, {<<"OktaSignIn", 95>>}, {95}), T("Keycloak", {"Java"}, {}, {90}),
  T("Stytch", {}, {}, {95}), T("Stripe", {}, {<<"Stripe", 90>>}, {95}),
  T("Razorpay", {}, {<<"Razorpay", 95>>}, {95}), T("PayPal", {}, {<<"paypal", 90>>}, {95}),
  T("Paddle", {}, {<<"Paddle", 95>>}, {95}), T("Lemon Squeezy", {}, {}, {95}),
  T("Adyen", {}, {<<"AdyenCheckout", 95>>}, {95}), T("Braintree", {}, {<<"braintree", 90>>}, {95}),
  T("Appwrite", {}, {}, {90}), T("MongoDB Atlas", {}, {}, {90}), T("Google Maps", {}, {}, {95}),
  T("Leaflet", {}, {}, {95}), T("Mapbox", {}, {<<"mapboxgl", 95>>}, {95}),
  T("OpenLayers", {}, {}, {95, 90}), T("OpenAI", {}, {}, {95}), T("Anthropic", {}, {}, {95}),
  T("Vercel AI SDK", {}, {}, {65}), T("Adobe Fonts", {}, {}, {95}), T("Lucide", {}, {}, {90, 85}),
  T("Material Icons", {}, {}, {95, 90}) >>

(* Rules over the inputs added last; nine of the names have a section above. *)
NewInputs == <<
  T("Progressive Web App", {}, {}, {95, 90}), T("Workbox", {}, {}, {90, 70}),
  T("Google Tag Manager", {}, {<<"dataLayer", 60>>}, {95, 90}),
  T("Google Analytics", {}, {<<"gtag", 85>>}, {95, 90}), T("Hotjar", {}, {}, {95, 90}),
  T("Intercom", {}, {}, {95}), T("Crisp", {}, {}, {95}), T("Cal.com", {}, {}, {95, 90}),
  T("Calendly", {}, {}, {95, 90}), T("YouTube", {}, {}, {95}), T("Vimeo", {}, {}, {95}),
  T("Typeform", {}, {}, {95}), T("Mailchimp", {}, {}, {95}), T("HubSpot", {}, {}, {95, 90}),
  T("Klaviyo", {}, {}, {95}), T("WordPress", {"PHP"}, {}, {98, 95, 90, 85, 80}),
  T("Elementor", {"WordPress"}, {}, {95}), T("Divi", {"WordPress"}, {}, {95, 90}),
  T("Yoast SEO", {"WordPress"}, {}, {98}), T("Open Graph", {}, {}, {90}),
  T("Vercel Analytics", {"Vercel"}, {}, {95}), T("Vercel", {}, {}, {98, 95}),
  T("Netlify", {}, {}, {98, 95}), T("Cloudflare", {}, {}, {98, 95, 90}),
  T("GitHub Pages", {}, {}, {95, 90}), T("Shopify", {}, {<<"Shopify", 98>>}, {98, 95, 90}),
  T("Google Workspace", {}, {}, {90}), T("Microsoft 365", {}, {}, {90}) >>
(* In source order: the engine goes through the rules from first to last.   *)
RAW_RULES == Frameworks \o ContentAndShops \o ServersAndHosts \o Animation
  \o Backends \o MoreFrameworks \o MoreKits \o Services \o NewInputs

(* The globals the crawler asks the page about.                             *)
PROBE_GLOBALS == {
  "__NEXT_DATA__", "__NUXT__", "__remixContext", "__sveltekit", "__NEXT_LOADED_PAGES__",
  "_astro", "React", "ReactDOM", "Vue", "ng", "getAllAngularRootElements", "angular", "jQuery",
  "$", "Shopify", "wp", "Drupal", "Joomla", "Alpine", "htmx", "gtag", "dataLayer", "ga", "fbq",
  "analytics", "Sentry", "Stripe", "webpackChunk", "__webpack_require__", "__vite__",
  "__APOLLO_CLIENT__", "gsap", "TweenMax", "TweenLite", "ScrollTrigger", "Motion", "THREE",
  "lottie", "bodymovin", "AOS", "anime", "Swiper", "LocomotiveScroll", "Lenis", "ScrollReveal",
  "ScrollMagic", "WOW", "Splide", "rive", "particlesJS", "tsParticles", "VANTA", "barba",
  "BABYLON", "PIXI", "Matter", "_$HY", "__PREACT_DEVTOOLS__", "litElementVersions",
  "litHtmlVersions", "Stimulus", "Ember", "Backbone", "Inferno", "$MARKO", "Phoenix",
  "parcelRequire", "Ecwid", "Snipcart", "Clerk", "OktaSignIn", "Razorpay", "paypal", "Paddle",
  "AdyenCheckout", "braintree", "mapboxgl", "LogRocket", "Bugsnag", "DD_RUM", "DD_LOGS",
  "NREUM", "rg4js", "mixpanel", "posthog", "amplitude", "heap" }
=============================================================================
